---- MODULE Spec2Model ----
(***************************************************************************)
(* Model of the minikube extension: the cluster reconciler of              *)
(* src/src/extension.ts (searchMinikubeClusters / updateClusters) and the  *)
(* CLI lifecycle controller of src/src/minikube-cli.ts and of the          *)
(* installer registered in src/src/extension.ts.                           *)
(***************************************************************************)
EXTENDS Integers, Sequences, FiniteSets, TLC

(***************************************************************************)
(* Bounds of the model.                                                    *)
(***************************************************************************)
\* longest container list listContainers answers with
MaxContainers == 2
\* most reconciliation passes suspended at listContainers at once
MaxInFlight == 2
\* most calls of provider.registerKubernetesProviderConnection in a run
MaxRegistrations == 4
\* releases the registry lists
MaxReleases == 2
\* longest answer of listReleases (per_page is 10)
MaxListed == 7
\* longest stdout of `minikube version --short`
MaxVersionLen == 3

\* minikube clusters handed to moveImage
MaxClusters == 3

\* chunks of output a child process writes
MaxOutput == 2

\* providers created between activation and deactivation
MaxProviders == 2

\* connections registered while providers come and go
MaxOwned == 2

(***************************************************************************)
(* Values.                                                                 *)
(***************************************************************************)
\* JavaScript's undefined
Undefined == "undefined"

API_MINIKUBE_INTERNAL_API_PORT == 8443

Port(priv, pub, type) == [PrivatePort |-> priv, PublicPort |-> pub, Type |-> type]

\* a ContainerInfo; Labels is the value of Labels['name.minikube.sigs.k8s.io']
ContainerInfo(label, state, ports) ==
    [Labels |-> label, State |-> state, Ports |-> ports, engineType |-> "podman"]

\* the containers the engine may list
Containers ==
    { ContainerInfo("a", "running", <<Port(API_MINIKUBE_INTERNAL_API_PORT, 55000, "tcp")>>),
      ContainerInfo("a", "exited", <<>>),
      ContainerInfo("b", "running", <<Port(22, 55001, "tcp"),
                                      Port(API_MINIKUBE_INTERNAL_API_PORT, 55002, "tcp")>>),
      ContainerInfo(Undefined, "running", <<Port(API_MINIKUBE_INTERNAL_API_PORT, 55003, "tcp")>>) }

\* the containers listed while several passes overlap
OverlapContainers ==
    { c \in Containers : c.Labels \in {"a", "b"} /\ c.State = "running" }

SeqsUpTo(S, n) == UNION { [1..k -> S] : k \in 0..n }

ContainerLists == SeqsUpTo(Containers, MaxContainers)

\* no container, one, or two of different clusters
OverlapLists ==
    {<<>>} \cup { <<c>> : c \in OverlapContainers }
           \cup { <<p[1], p[2]>> :
                    p \in { q \in OverlapContainers \X OverlapContainers : q[1] # q[2] } }

(***************************************************************************)
(* updateClusters and searchMinikubeClusters.                              *)
(***************************************************************************)
\* container.Labels?.['name.minikube.sigs.k8s.io'] is truthy
IsMinikubeContainerAll(container) == TRUE

IsMinikubeContainer(container) ==
    container.Labels # Undefined /\ container.Labels # ""

\* allContainers.filter(...)
FilterMinikubeContainers(allContainers) ==
    SelectSeq(allContainers, IsMinikubeContainer)

RECURSIVE FindPort(_, _)
\* container.Ports.find(port => port.PrivatePort === 8443 && port.Type === 'tcp'):
\* the index of the first match, 0 when there is none (undefined)
FindPort(ports, k) ==
    IF k > Len(ports) THEN 0
    ELSE IF ports[k].PrivatePort = API_MINIKUBE_INTERNAL_API_PORT /\ ports[k].Type = "tcp"
         THEN k
         ELSE FindPort(ports, k + 1)

\* listeningPort?.PublicPort ?? 0
ApiPort(container) ==
    LET listeningPort == FindPort(container.Ports, 1)
    IN  IF listeningPort = 0 THEN 0 ELSE container.Ports[listeningPort].PublicPort

ConnectionStatus(container) ==
    IF container.State = "running" THEN "started" ELSE "stopped"

\* one element of minikubeContainers / minikubeClusters
ToCluster(container) ==
    [name |-> container.Labels,
     status |-> ConnectionStatus(container),
     apiPort |-> ApiPort(container),
     engineType |-> container.engineType]

ToClusters(containers) == [k \in 1..Len(containers) |-> ToCluster(containers[k])]

\* `https://localhost:${cluster.apiPort}`
ApiURL(apiPort) == <<"https://localhost:", apiPort>>

RECURSIVE FindFrom(_, _, _)
FindFrom(items, name, k) ==
    IF k > Len(items) THEN 0
    ELSE IF items[k].name = name THEN k ELSE FindFrom(items, name, k + 1)

FindConnectionNever(connections, name) == 0

\* registeredKubernetesConnections.find(item => item.connection.name === cluster.name):
\* the index of the first match, 0 when there is none
FindConnection(connections, name) == FindFrom(connections, name, 1)

\* minikubeClusters.find(cluster => cluster.name === item.connection.name) is defined
HasCluster(clusters, name) == FindFrom(clusters, name, 1) # 0

\* the connection handed to provider.registerKubernetesProviderConnection; id is the
\* identity of the connection object and of the disposable the provider returns
NewConnection(cluster, id) ==
    [name |-> cluster.name, id |-> id, status |-> cluster.status,
     apiURL |-> ApiURL(cluster.apiPort),
     lifecycle |-> [profile |-> cluster.name]]

UpdateConnectionStatusOnly(item, cluster) ==
    [item EXCEPT !.status = cluster.status]

\* item.connection.status = status; item.connection.endpoint.apiURL = ...
UpdateConnection(item, cluster) ==
    [item EXCEPT !.status = cluster.status, !.apiURL = ApiURL(cluster.apiPort)]

LiveNames(live) == { l.name : l \in live }

RECURSIVE RegisterLoop(_, _, _)
\* minikubeContainers.forEach(cluster => { find; register and push, or update })
\* st: reg (registeredKubernetesConnections), live (the provider's undisposed
\* connections), next (the next identity), calls (the calls made on the provider)
RegisterLoop(clusters, k, st) ==
    IF k > Len(clusters) THEN st
    ELSE LET cluster == clusters[k]
             idx == FindConnection(st.reg, cluster.name)
         IN  IF idx = 0
             THEN RegisterLoop(clusters, k + 1,
                    [reg |-> Append(st.reg, NewConnection(cluster, st.next)),
                     live |-> st.live \cup {[id |-> st.next, name |-> cluster.name]},
                     next |-> st.next + 1,
                     calls |-> Append(st.calls,
                                 [op |-> "register", id |-> st.next, name |-> cluster.name,
                                  live |-> cluster.name \in LiveNames(st.live)])])
             ELSE RegisterLoop(clusters, k + 1,
                    [st EXCEPT !.reg[idx] = UpdateConnection(st.reg[idx], cluster)])

RemoveAt(s, i) == [k \in 1..(Len(s) - 1) |-> IF k < i THEN s[k] ELSE s[k + 1]]

RECURSIVE DisposeLoop(_, _, _, _)
\* registeredKubernetesConnections.forEach(item => { dispose and splice when the
\* cluster is gone }): forEach visits the indices below the length the array had
\* when the loop began, and skips an index the array no longer has
DisposeLoop(clusters, k, len, st) ==
    IF k > len THEN st
    ELSE IF k > Len(st.reg) THEN DisposeLoop(clusters, k + 1, len, st)
    ELSE LET item == st.reg[k]
         IN  IF HasCluster(clusters, item.name)
             THEN DisposeLoop(clusters, k + 1, len, st)
             ELSE DisposeLoop(clusters, k + 1, len,
                    [st EXCEPT !.reg = RemoveAt(st.reg, k),
                               !.live = { l \in st.live : l.id # item.id },
                               !.calls = Append(st.calls,
                                  [op |-> "dispose", id |-> item.id, name |-> item.name,
                                   live |-> item.id \in { l.id : l \in st.live }])])

\* updateClusters(provider, containers): the state it leaves
UpdateClustersResult(containers, reg, live, next) ==
    LET clusters == ToClusters(containers)
        afterRegister == RegisterLoop(clusters, 1,
                           [reg |-> reg, live |-> live, next |-> next, calls |-> <<>>])
        afterDispose == DisposeLoop(clusters, 1, Len(afterRegister.reg), afterRegister)
    IN  [clusters |-> clusters, reg |-> afterDispose.reg, live |-> afterDispose.live,
         next |-> afterDispose.next, calls |-> afterDispose.calls]

(***************************************************************************)
(* The CLI lifecycle: values and pure helpers.                             *)
(***************************************************************************)
\* a string is a sequence of characters; NoVersion is an absent version
NoVersion == <<Undefined>>

Whitespace == {" ", "\n"}

Digits == <<"1", "2", "3", "4", "5", "6", "7", "8", "9">>

\* an entry of the data octokit.repos.listReleases answers with: release i has
\* tag_name v<i>; its name is null for the odd i
ListedRelease(i, prerelease) ==
    [name |-> IF i % 2 = 1 THEN <<Undefined>> ELSE <<"m", Digits[i]>>,
     tag_name |-> <<"v", Digits[i]>>, id |-> i, prerelease |-> prerelease]

\* the map callback of grabLatestsReleasesMetadata: label, tag and id
ToMetadata(release) ==
    [label |-> IF release.name = <<Undefined>> THEN release.tag_name ELSE release.name,
     tag |-> release.tag_name, id |-> release.id]

\* release i of the registry as the extension holds it: tag v<i>
Release(i) == ToMetadata(ListedRelease(i, FALSE))

\* octokit.repos.listReleases: the data it answers with
RegistryReleases == [i \in 1..MaxReleases |-> ListedRelease(i, FALSE)]

\* slice(0, 5)
MaxRetained == 5

\* .map(release => ...)
ToMetadataAll(data) == [k \in 1..Len(data) |-> ToMetadata(data[k])]

GrabLatestsReleasesMetadataUnfiltered(data) ==
    SubSeq(ToMetadataAll(data), 1,
           IF Len(data) < MaxRetained THEN Len(data) ELSE MaxRetained)

\* grabLatestsReleasesMetadata: non-prereleases, mapped, the first five
GrabLatestsReleasesMetadata(data) ==
    LET kept == ToMetadataAll(SelectSeq(data, LAMBDA release : ~release.prerelease))
    IN  SubSeq(kept, 1, IF Len(kept) < MaxRetained THEN Len(kept) ELSE MaxRetained)

RECURSIVE ReplaceFirst(_, _)
\* s.replace(ch, ''): the first occurrence of ch removed
ReplaceFirst(s, ch) ==
    IF s = <<>> THEN <<>>
    ELSE IF Head(s) = ch THEN Tail(s)
    ELSE <<Head(s)>> \o ReplaceFirst(Tail(s), ch)

RECURSIVE TrimStart(_)
TrimStart(s) ==
    IF s # <<>> /\ Head(s) \in Whitespace THEN TrimStart(Tail(s)) ELSE s

RECURSIVE TrimEnd(_)
TrimEnd(s) ==
    IF s # <<>> /\ s[Len(s)] \in Whitespace THEN TrimEnd(SubSeq(s, 1, Len(s) - 1)) ELSE s

\* s.trim()
Trim(s) == TrimEnd(TrimStart(s))

StripVersionKeepV(s) == Trim(s)

\* s.replace('v', '').trim()
StripVersion(s) == Trim(ReplaceFirst(s, "v"))

\* tag.slice(1)
Slice1(s) == IF s = <<>> THEN <<>> ELSE Tail(s)

\* the paths of the binary: getBinarySystemPath('minikube'), getMinikubeExtensionPath(),
\* and a place on PATH no installer of this extension writes to
SystemPath == "/usr/local/bin/minikube"

ExtensionPath == "/storage/minikube"

ExternalPath == "/usr/bin/minikube"

Paths == {SystemPath, ExtensionPath, ExternalPath}

\* the file system: at each path no file (0) or the binary of release i
NoFile == 0

\* stdout of `<binary> version --short` for the binary of release i
VersionOutput(i) == Release(i).tag \o <<"\n">>

\* #cliInfo undefined; otherwise [version, path]
NoInfo == [version |-> NoVersion, path |-> Undefined]

\* the artifact variable of init() / activate(): 0 is undefined, i is Release(i)
NoArtifact == 0

\* a result of a file operation: whether it resolved, the file system it leaves,
\* the value it resolves with or the message it rejects with
Resolved(files, value) == [ok |-> TRUE, fs |-> files, value |-> value]

Rejected(files, message) == [ok |-> FALSE, fs |-> files, value |-> message]

\* MinikubeDownload.download(release): asset lookup, write to the extension path,
\* chmod; `outcome` says which step rejects, if any
DownloadOutcomes == {"ok", "noAsset", "downloadFails", "chmodFails"}

Download(files, release, outcome) ==
    CASE outcome = "noAsset" -> Rejected(files, "No asset found")
      [] outcome = "downloadFails" -> Rejected(files, "download failed")
      [] outcome = "chmodFails" ->
            Rejected([files EXCEPT ![ExtensionPath] = release.id], "chmod failed")
      [] OTHER -> Resolved([files EXCEPT ![ExtensionPath] = release.id], ExtensionPath)

\* installBinaryToSystem(binaryPath, 'minikube'): chmod, mkdir and the elevated
\* copy; it resolves with the system path or rejects and copies nothing
InstallBinaryToSystem(files, binaryPath, promoted) ==
    IF promoted
    THEN Resolved([files EXCEPT ![SystemPath] = files[binaryPath]], SystemPath)
    ELSE Rejected(files, "cannot copy")

\* deleteFile(filePath): unlink, with one elevated retry on EACCES / EPERM
DeleteOutcomes == {"ok", "adminOk", "adminFails", "fails"}

DeleteFile(files, filePath, outcome) ==
    IF filePath # Undefined /\ files[filePath] # NoFile
    THEN CASE outcome \in {"ok", "adminOk"} ->
                 Resolved([files EXCEPT ![filePath] = NoFile], Undefined)
           [] outcome = "adminFails" -> Rejected(files, "elevated delete failed")
           [] OTHER -> Rejected(files, "unlink failed")
    ELSE Resolved(files, Undefined)

\* fs/promises rm(path): rejects when the file is missing or cannot be removed
Rm(files, path, outcome) ==
    IF files[path] = NoFile THEN Rejected(files, "ENOENT")
    ELSE IF outcome = "ok" THEN Resolved([files EXCEPT ![path] = NoFile], Undefined)
    ELSE Rejected(files, "rm failed")

\* whereBinary('minikube'): the path it resolves with, Undefined when it rejects
WhereBinaryResults(files) ==
    {Undefined} \cup { p \in {SystemPath, ExternalPath} : files[p] # NoFile }

\* whereBinary('minikube'): resolves with the path `which` / `where.exe` printed,
\* rejects when the lookup fails (where is Undefined)
WhereBinary(files, where) ==
    IF where = Undefined THEN Rejected(files, "binary minikube not found.")
    ELSE Resolved(files, where)

FindMinikubePreferExtension(files, where) ==
    IF files[ExtensionPath] # NoFile THEN Resolved(files, ExtensionPath)
    ELSE Resolved(files, where)

\* findMinikube(): the path whereBinary found; when it rejects, the extension
\* path if a file is there; undefined otherwise
FindMinikube(files, where) ==
    LET lookup == WhereBinary(files, where)
    IN  IF lookup.ok THEN Resolved(files, lookup.value)
        ELSE IF files[ExtensionPath] # NoFile THEN Resolved(files, ExtensionPath)
        ELSE Resolved(files, Undefined)

\* what unlink(filePath) answers: done, or the code of its error
UnlinkCodes == {"ok", "EACCES", "EPERM", "EBUSY"}

DeleteOutcomeElevatesAll(code, adminOk) ==
    IF code = "ok" THEN "ok" ELSE IF adminOk THEN "adminOk" ELSE "adminFails"

\* the way deleteFile goes for an answer of unlink and of the elevated command
DeleteOutcomeOf(code, adminOk) ==
    IF code = "ok" THEN "ok"
    ELSE IF code \in {"EACCES", "EPERM"}
    THEN IF adminOk THEN "adminOk" ELSE "adminFails"
    ELSE "fails"

\* the calls deleteFile(filePath) makes: unlink, then deleteFileAsAdmin's exec of
\* rm (del on Windows) with isAdmin
DeleteFileCalls(files, filePath, code, adminOk, isWindows) ==
    IF filePath # Undefined /\ files[filePath] # NoFile
    THEN <<[op |-> "unlink", command |-> "", args |-> <<filePath>>, isAdmin |-> FALSE]>>
         \o ( IF DeleteOutcomeOf(code, adminOk) \in {"adminOk", "adminFails"}
              THEN <<[op |-> "exec", command |-> IF isWindows THEN "del" ELSE "rm",
                      args |-> <<filePath>>, isAdmin |-> TRUE]>>
              ELSE <<>> )
    ELSE <<>>

\* the releases selectVersion offers: those whose tag.slice(1) is not `version`
Offered(version) ==
    SelectSeq(GrabLatestsReleasesMetadata(RegistryReleases),
              LAMBDA release : Slice1(release.tag) # version)

\* cliTool.updateVersion({version, path}): the CliTool the host shows
UpdateVersion(tool, info) == [version |-> info.version, path |-> info.path]

InstalledInfoRawTag(path, release) == [version |-> release.tag, path |-> path]

\* MinikubeCli.doInstall: the record handed to update()
InstalledInfo(path, release) == [version |-> StripVersion(release.tag), path |-> path]

\* what an operation of the controller leaves: whether it resolved, the message it
\* rejected with, the file system, the record, the CliTool and the payloads fired
\* on onCliUpdate
Outcome(ok, error, files, info, tool, fired) ==
    [ok |-> ok, error |-> error, fs |-> files, cliInfo |-> info, cliTool |-> tool,
     fired |-> fired]

\* MinikubeCli.update(info)
Update(files, info, tool) ==
    Outcome(TRUE, "", files, info,
            IF info # NoInfo THEN UpdateVersion(tool, info) ELSE tool, <<info>>)

CliDoInstallUpdatesAlways(info, tool, files, release, outcome, promoted) ==
    LET d == Download(files, release, outcome)
    IN  IF ~d.ok
        THEN [Update(d.fs, InstalledInfo(ExtensionPath, release), tool)
                EXCEPT !.ok = FALSE, !.error = d.value]
        ELSE LET i == InstallBinaryToSystem(d.fs, d.value, promoted)
             IN  Update(i.fs, InstalledInfo(IF i.ok THEN i.value ELSE d.value, release), tool)

\* MinikubeCli.doInstall(logger, artifact)
CliDoInstall(info, tool, files, release, outcome, promoted) ==
    LET d == Download(files, release, outcome)
    IN  IF ~d.ok
        THEN Outcome(FALSE, d.value, d.fs, info, tool, <<>>)
        ELSE LET i == InstallBinaryToSystem(d.fs, d.value, promoted)
             IN  Update(i.fs, InstalledInfo(IF i.ok THEN i.value ELSE d.value, release), tool)

\* MinikubeCli.doUninstall(logger)
CliDoUninstall(info, tool, files, outcome) ==
    IF info = NoInfo
    THEN Outcome(FALSE, "cannot uninstalled minikube: the extension did not detect any installed.",
                 files, info, tool, <<>>)
    ELSE IF info.path = ExtensionPath
    THEN LET r == Rm(files, info.path, outcome)
         IN  IF ~r.ok THEN Outcome(FALSE, r.value, r.fs, info, tool, <<>>)
             ELSE LET c == IF r.fs[ExtensionPath] # NoFile
                           THEN Rm(r.fs, ExtensionPath, outcome)
                           ELSE Resolved(r.fs, Undefined)
                  IN  IF ~c.ok THEN Outcome(FALSE, c.value, c.fs, info, tool, <<>>)
                      ELSE Update(c.fs, NoInfo, tool)
    ELSE IF info.path = SystemPath
    THEN LET r == DeleteFile(files, info.path, outcome)
         IN  Outcome(r.ok, IF r.ok THEN "" ELSE r.value, r.fs, info, tool, <<>>)
    ELSE Outcome(FALSE, "cannot uninstall minikube not-installed by the extension.",
                 files, info, tool, <<>>)

\* extension.ts doInstall: the argument of updateVersion
InstalledVersion(path, release) == [version |-> StripVersion(release.tag), path |-> path]

InstallRaising(files, release, outcome, promoted) ==
    LET d == Download(files, release, outcome)
    IN  IF ~d.ok THEN d ELSE InstallBinaryToSystem(d.fs, d.value, promoted)

\* MinikubeDownload.install(release): download, then the system-wide copy if it works
Install(files, release, outcome, promoted) ==
    LET d == Download(files, release, outcome)
    IN  IF ~d.ok THEN d
        ELSE LET i == InstallBinaryToSystem(d.fs, d.value, promoted)
             IN  IF i.ok THEN i ELSE Resolved(i.fs, d.value)

\* extension.ts registerInstaller doUninstall: the file operations
ExtDoUninstall(cli, files, outcome) ==
    LET first == IF cli = SystemPath THEN DeleteFile(files, cli, outcome)
                 ELSE Resolved(files, Undefined)
    IN  IF ~first.ok THEN first
        ELSE IF first.fs[ExtensionPath] # NoFile
        THEN DeleteFile(first.fs, ExtensionPath, outcome)
        ELSE first

(***************************************************************************)
(* State.                                                                  *)
(***************************************************************************)
VARIABLES
    minikubeClusters,                  \* extension.ts: let minikubeClusters
    registeredKubernetesConnections,   \* extension.ts: const registeredKubernetesConnections
    providerConnections,               \* the provider's registered, undisposed connections
    nextId,                            \* identity of the next connection object
    inflight,                          \* passes suspended at listContainers, in trigger order
    latestTriggered,                   \* the list the most recently triggered pass listed
    lastPass,                          \* what the most recent updateClusters did
    controller,                        \* the installer in use: MinikubeCli or extension.ts
    pc,                                \* init until detection (activation) is over
    fs,                                \* the file at each of Paths
    cliInfo,                           \* minikube-cli.ts: #cliInfo
    cliTool,                           \* the host's CliTool: version and path
    minikubeCli,                       \* extension.ts: let minikubeCli
    artifact,                          \* the artifact variable of the installer
    lastSelected,                      \* the release the last selectVersion resolved with
    last,                              \* what the most recent lifecycle operation did
    releases,                          \* the data listReleases answers with
    call,                              \* the most recent call of a MinikubeDownload function
    provider,                          \* extension.ts: let provider (0 is undefined)
    providers,                         \* every provider created: alive or disposed
    creating,                          \* the createProvider calls that have not returned
    handlers,                          \* the providers whose event handlers are subscribed
    owner,                             \* the provider each connection was registered with
    passOn                             \* the provider the most recent pass was given

reconcilerVars == <<minikubeClusters, registeredKubernetesConnections, providerConnections,
                    nextId, inflight, latestTriggered, lastPass>>

lifecycleVars == <<controller, pc, fs, cliInfo, cliTool, minikubeCli, artifact,
                   lastSelected, last>>

downloadVars == <<releases, call>>

providerVars == <<provider, providers, creating, handlers, owner, passOn>>

vars == <<reconcilerVars, lifecycleVars, downloadVars, providerVars>>

Names(items) == { items[k].name : k \in 1..Len(items) }

\* the registered connections whose name is in `names`
Named(connections, names) ==
    { connections[k] : k \in { j \in 1..Len(connections) : connections[j].name \in names } }

\* lastPass: all is the list listContainers answered with, others the number of
\* other passes suspended when this one resumed, calls the calls made on the
\* provider and the disposables, kept (gone) the connections as they were before
\* the pass for the names that the previous pass listed and this one lists too
\* (lists no more)
NoPass == [ran |-> FALSE, all |-> <<>>, others |-> 0, calls |-> <<>>,
           kept |-> {}, gone |-> {}]

NoProvider == 0

\* passOn: provider is the provider the pass was given, alive whether it was
\* undisposed when the pass ran, trigger what started the pass
NoPassOn == [provider |-> NoProvider, alive |-> TRUE, trigger |-> "none"]

\* no provider was created yet
ProviderStart ==
    /\ provider = NoProvider
    /\ providers = <<>>
    /\ creating = <<>>
    /\ handlers = {}
    /\ owner = {}
    /\ passOn = NoPassOn

ReconcilerInit ==
    /\ ProviderStart
    /\ minikubeClusters = <<>>
    /\ registeredKubernetesConnections = <<>>
    /\ providerConnections = {}
    /\ nextId = 1
    /\ inflight = <<>>
    /\ latestTriggered = [any |-> FALSE, all |-> <<>>]
    /\ lastPass = NoPass

\* searchMinikubeClusters up to its await: listContainers is called and will
\* answer with allContainers
StartSearch(allContainers) ==
    /\ inflight' = Append(inflight, allContainers)
    /\ latestTriggered' = [any |-> TRUE, all |-> allContainers]
    /\ UNCHANGED <<minikubeClusters, registeredKubernetesConnections,
                   providerConnections, nextId, lastPass, lifecycleVars, downloadVars, providerVars>>

\* containerEngine.onEvent handler
ContainerEvent(type, allContainers) ==
    /\ type = "container"
    /\ StartSearch(allContainers)

\* provider.onDidUpdateContainerConnection / onDidRegisterContainerConnection /
\* onDidUnregisterContainerConnection handlers
ContainerConnectionEvent(allContainers) == StartSearch(allContainers)

\* provider.onDidUpdateProvider handler: registerProvider
ProviderUpdate(allContainers) == StartSearch(allContainers)

\* listContainers of the i-th suspended pass resolves: filter, then updateClusters
ResumeSearch(i) ==
    /\ i \in 1..Len(inflight)
    /\ LET allContainers == inflight[i]
           containers == FilterMinikubeContainers(allContainers)
           r == UpdateClustersResult(containers, registeredKubernetesConnections,
                                     providerConnections, nextId)
       IN  /\ r.next <= MaxRegistrations + 1
           /\ minikubeClusters' = r.clusters
           /\ registeredKubernetesConnections' = r.reg
           /\ providerConnections' = r.live
           /\ nextId' = r.next
           /\ lastPass' = [ran |-> TRUE, all |-> allContainers,
                           others |-> Len(inflight) - 1, calls |-> r.calls,
                           kept |-> Named(registeredKubernetesConnections,
                                       Names(minikubeClusters) \cap Names(r.clusters)),
                           gone |-> Named(registeredKubernetesConnections,
                                       Names(minikubeClusters) \ Names(r.clusters))]
    /\ inflight' = RemoveAt(inflight, i)
    /\ UNCHANGED <<latestTriggered, lifecycleVars, downloadVars, providerVars>>

EventTypes == {"container", "image"}

Controllers == {"MinikubeCli", "extension.ts"}

NoTool == [version |-> NoVersion, path |-> Undefined]

NoOperation == [op |-> "none", ok |-> TRUE, error |-> "",
                before |-> [cliInfo |-> NoInfo, cliTool |-> NoTool, minikubeCli |-> Undefined],
                fired |-> <<>>, deleted |-> {}, promoted |-> FALSE]

NoCall == [fn |-> "none"]

\* no function of MinikubeDownload called yet
DownloadStart ==
    /\ releases = RegistryReleases
    /\ call = NoCall

\* the controller constructed, detection (activation) not yet over
LifecycleStart ==
    /\ pc = "init"
    /\ cliInfo = NoInfo
    /\ cliTool = NoTool
    /\ minikubeCli = Undefined
    /\ artifact = NoArtifact
    /\ lastSelected = NoArtifact
    /\ last = NoOperation

\* one pass at a time, any container list
Init ==
    /\ ReconcilerInit
    /\ controller = "MinikubeCli"
    /\ fs = [p \in Paths |-> NoFile]
    /\ LifecycleStart
    /\ DownloadStart

Next ==
    \/ \E t \in EventTypes, l \in ContainerLists :
          inflight = <<>> /\ ContainerEvent(t, l)
    \/ \E l \in ContainerLists : inflight = <<>> /\ ContainerConnectionEvent(l)
    \/ \E l \in ContainerLists : inflight = <<>> /\ ProviderUpdate(l)
    \/ \E i \in 1..MaxInFlight : ResumeSearch(i)

Spec == Init /\ [][Next]_vars

\* passes overlap: up to MaxInFlight are suspended at listContainers at once
NextOverlap ==
    \/ \E t \in EventTypes, l \in OverlapLists :
          Len(inflight) < MaxInFlight /\ ContainerEvent(t, l)
    \/ \E l \in OverlapLists : Len(inflight) < MaxInFlight /\ ContainerConnectionEvent(l)
    \/ \E l \in OverlapLists : Len(inflight) < MaxInFlight /\ ProviderUpdate(l)
    \/ \E i \in 1..MaxInFlight : ResumeSearch(i)

SpecOverlap == Init /\ [][NextOverlap]_vars

(***************************************************************************)
(* The CLI lifecycle: MinikubeCli (minikube-cli.ts) and the installer that  *)
(* activate() registers (extension.ts).                                    *)
(***************************************************************************)
Before == [cliInfo |-> cliInfo, cliTool |-> cliTool, minikubeCli |-> minikubeCli]

Deleted(files, after) == { p \in Paths : files[p] # NoFile /\ after[p] = NoFile }

\* the operation `op` is over with outcome o
Settle(op, o, promoted) ==
    /\ fs' = o.fs
    /\ cliInfo' = o.cliInfo
    /\ cliTool' = o.cliTool
    /\ last' = [op |-> op, ok |-> o.ok, error |-> o.error, before |-> Before,
                fired |-> o.fired, deleted |-> Deleted(fs, o.fs), promoted |-> promoted]

\* MinikubeCli.init(): detect().then(update).catch(...)
Cli_detect(where, versionOk) ==
    /\ controller = "MinikubeCli"
    /\ pc = "init"
    /\ pc' = "ready"
    /\ LET path == IF where = Undefined THEN ExtensionPath ELSE where
       IN  IF fs[path] # NoFile /\ versionOk
           THEN Settle("detect",
                       Update(fs, [version |-> StripVersion(VersionOutput(fs[path])),
                                   path |-> path], cliTool),
                       FALSE)
           ELSE Settle("detect",
                       Outcome(TRUE,
                               IF fs[path] = NoFile THEN "cannot found minikube on system."
                               ELSE "version failed",
                               fs, NoInfo, cliTool, <<>>),
                       FALSE)
    /\ UNCHANGED <<controller, minikubeCli, artifact, lastSelected, reconcilerVars, downloadVars, providerVars>>

\* selectVersion of the installer and of the updater registered by init()
Cli_selectVersion(registryOk, pick) ==
    /\ controller = "MinikubeCli"
    /\ LET offered == IF cliInfo # NoInfo THEN Offered(cliInfo.version)
                      ELSE GrabLatestsReleasesMetadata(RegistryReleases)
       IN  /\ pick <= Len(offered)
           /\ IF registryOk /\ pick > 0
              THEN /\ artifact' = offered[pick].id
                   /\ lastSelected' = offered[pick].id
                   /\ Settle("selectVersion",
                             Outcome(TRUE, "", fs, cliInfo, cliTool, <<>>), FALSE)
              ELSE /\ UNCHANGED <<artifact, lastSelected>>
                   /\ Settle("selectVersion",
                             Outcome(FALSE, IF registryOk THEN "No version selected"
                                            ELSE "listReleases failed",
                                     fs, cliInfo, cliTool, <<>>), FALSE)
    /\ UNCHANGED <<controller, pc, minikubeCli, reconcilerVars, downloadVars, providerVars>>

\* doInstall of the installer and doUpdate of the updater registered by init()
Cli_doInstall(outcome, promoted) ==
    /\ controller = "MinikubeCli"
    /\ IF artifact = NoArtifact
       THEN Settle("doInstall",
                   Outcome(FALSE, "select version undefined", fs, cliInfo, cliTool, <<>>),
                   FALSE)
       ELSE Settle("doInstall",
                   CliDoInstall(cliInfo, cliTool, fs, Release(artifact), outcome, promoted),
                   outcome = "ok" /\ promoted)
    /\ UNCHANGED <<controller, pc, minikubeCli, artifact, lastSelected, reconcilerVars, downloadVars, providerVars>>

\* doUninstall of the installer registered by init()
Cli_doUninstall(outcome) ==
    /\ controller = "MinikubeCli"
    /\ LET o == CliDoUninstall(cliInfo, cliTool, fs, outcome)
       IN  /\ Settle("doUninstall", o, FALSE)
           /\ artifact' = IF o.ok THEN NoArtifact ELSE artifact
    /\ UNCHANGED <<controller, pc, minikubeCli, lastSelected, reconcilerVars, downloadVars, providerVars>>

\* activate(): findMinikube, getMinikubeVersion, createCliTool, registerInstaller
Ext_activate(where, versionOk) ==
    /\ controller = "extension.ts"
    /\ pc = "init"
    /\ LET found == FindMinikube(fs, where).value
       IN  /\ minikubeCli' = found
           /\ IF found # Undefined /\ ~versionOk
              THEN /\ pc' = "failed"
                   /\ UNCHANGED cliTool
                   /\ last' = [NoOperation EXCEPT !.op = "activate", !.ok = FALSE,
                                                  !.error = "version failed"]
              ELSE /\ pc' = "ready"
                   /\ cliTool' = [version |-> IF found = Undefined THEN NoVersion
                                              ELSE StripVersion(VersionOutput(fs[found])),
                                  path |-> found]
                   /\ last' = [NoOperation EXCEPT !.op = "activate",
                                   !.error = IF found = Undefined
                                             THEN "binary minikube not found." ELSE ""]
    /\ UNCHANGED <<controller, fs, cliInfo, artifact, lastSelected, reconcilerVars, downloadVars, providerVars>>

\* registerInstaller selectVersion: minikubeDownload.selectVersion(minikubeCliTool)
Ext_selectVersion(registryOk, pick) ==
    /\ controller = "extension.ts"
    /\ pc = "ready"
    /\ LET releasesMetadata == GrabLatestsReleasesMetadata(RegistryReleases)
           offered == Offered(cliTool.version)
       IN  /\ pick <= Len(offered)
           /\ IF registryOk /\ Len(releasesMetadata) # 0 /\ pick > 0
              THEN /\ artifact' = offered[pick].id
                   /\ lastSelected' = offered[pick].id
                   /\ Settle("selectVersion",
                             Outcome(TRUE, "", fs, cliInfo, cliTool, <<>>), FALSE)
              ELSE /\ UNCHANGED <<artifact, lastSelected>>
                   /\ Settle("selectVersion",
                             Outcome(FALSE,
                                     IF ~registryOk THEN "listReleases failed"
                                     ELSE IF Len(releasesMetadata) = 0
                                          THEN "cannot grab minikube releases"
                                          ELSE "No version selected",
                                     fs, cliInfo, cliTool, <<>>), FALSE)
    /\ UNCHANGED <<controller, pc, minikubeCli, reconcilerVars, downloadVars, providerVars>>

\* registerInstaller doInstall
Ext_doInstall(outcome, promoted) ==
    /\ controller = "extension.ts"
    /\ pc = "ready"
    /\ IF artifact = NoArtifact
       THEN /\ Settle("doInstall",
                      Outcome(FALSE, "not selected", fs, cliInfo, cliTool, <<>>), FALSE)
            /\ UNCHANGED minikubeCli
       ELSE LET r == Install(fs, Release(artifact), outcome, promoted)
            IN  IF ~r.ok
                THEN /\ Settle("doInstall",
                               Outcome(FALSE, r.value, r.fs, cliInfo, cliTool, <<>>), FALSE)
                     /\ UNCHANGED minikubeCli
                ELSE /\ Settle("doInstall",
                               Outcome(TRUE, "", r.fs, cliInfo,
                                       UpdateVersion(cliTool,
                                           InstalledVersion(r.value, Release(artifact))),
                                       <<>>),
                               r.value = SystemPath)
                     /\ minikubeCli' = r.value
    /\ UNCHANGED <<controller, pc, artifact, lastSelected, reconcilerVars, downloadVars, providerVars>>

\* registerInstaller doUninstall
Ext_doUninstall(outcome) ==
    /\ controller = "extension.ts"
    /\ pc = "ready"
    /\ IF minikubeCli = Undefined
       THEN Settle("doUninstall",
                   Outcome(FALSE, "no version installed", fs, cliInfo, cliTool, <<>>), FALSE)
       ELSE LET r == ExtDoUninstall(minikubeCli, fs, outcome)
            IN  Settle("doUninstall",
                       Outcome(r.ok, IF r.ok THEN "" ELSE r.value, r.fs, cliInfo, cliTool,
                               <<>>),
                       FALSE)
    /\ UNCHANGED <<controller, pc, minikubeCli, artifact, lastSelected, reconcilerVars, downloadVars, providerVars>>

\* minikubeCliTool.onDidUninstall handler, fired by the host once doUninstall resolved
Ext_onDidUninstall ==
    /\ controller = "extension.ts"
    /\ pc = "ready"
    /\ last.op = "doUninstall"
    /\ last.ok
    /\ minikubeCli' = Undefined
    /\ last' = [NoOperation EXCEPT !.op = "onDidUninstall", !.before = Before]
    /\ UNCHANGED <<controller, pc, fs, cliInfo, cliTool, artifact, lastSelected,
                   reconcilerVars, downloadVars, providerVars>>

LifecycleInit ==
    /\ ReconcilerInit
    /\ controller \in Controllers
    /\ fs \in [Paths -> NoFile..MaxReleases]
    /\ LifecycleStart
    /\ DownloadStart

NextLifecycle ==
    \/ \E where \in WhereBinaryResults(fs), versionOk \in BOOLEAN : Cli_detect(where, versionOk)
    \/ \E registryOk \in BOOLEAN, pick \in 0..MaxReleases : Cli_selectVersion(registryOk, pick)
    \/ \E outcome \in DownloadOutcomes, promoted \in BOOLEAN : Cli_doInstall(outcome, promoted)
    \/ \E outcome \in DeleteOutcomes : Cli_doUninstall(outcome)
    \/ \E where \in WhereBinaryResults(fs), versionOk \in BOOLEAN : Ext_activate(where, versionOk)
    \/ \E registryOk \in BOOLEAN, pick \in 0..MaxReleases : Ext_selectVersion(registryOk, pick)
    \/ \E outcome \in DownloadOutcomes, promoted \in BOOLEAN : Ext_doInstall(outcome, promoted)
    \/ \E outcome \in DeleteOutcomes : Ext_doUninstall(outcome)
    \/ Ext_onDidUninstall

SpecLifecycle == LifecycleInit /\ [][NextLifecycle]_vars

(***************************************************************************)
(* The functions of MinikubeDownload (download.ts), called on their own    *)
(* over every answer of the registry.                                      *)
(***************************************************************************)
\* the answers of octokit.repos.listReleases: newest first, any of them a prerelease
ReleaseLists ==
    UNION { { [i \in 1..n |-> ListedRelease(i, pre[i])] : pre \in [1..n -> BOOLEAN] } :
            n \in 0..MaxListed }

\* the file systems install() is called on: empty, or an older binary in place
InstallFiles ==
    { [p \in Paths |-> NoFile],
      [p \in Paths |-> IF p = ExternalPath THEN NoFile ELSE MaxListed + 1] }

\* JavaScript's undefined where release metadata is expected
NoMetadata == [label |-> <<Undefined>>, tag |-> <<Undefined>>, id |-> 0]

\* latestReleases[0]
First(latestReleases) ==
    IF Len(latestReleases) = 0 THEN NoMetadata ELSE latestReleases[1]

\* getLatestVersionAsset(): resolves with latestReleases[0]
GetLatestVersionAsset(data) == Resolved(<<>>, First(GrabLatestsReleasesMetadata(data)))

Ids(metadata) == { metadata[k].id : k \in 1..Len(metadata) }

\* no function called yet: each is called once, on the registry as it was answered
Fresh == call.fn = "none"

DownloadDone == UNCHANGED <<releases, reconcilerVars, lifecycleVars, providerVars>>

\* minikubeDownload.install(release) for a release of the list
Download_install(files, id, outcome, promoted) ==
    /\ Fresh
    /\ id \in Ids(GrabLatestsReleasesMetadata(releases))
    /\ call' = [fn |-> "install", release |-> id, outcome |-> outcome,
                promoted |-> promoted, files |-> files,
                result |-> Install(files, Release(id), outcome, promoted)]
    /\ DownloadDone

\* minikubeDownload.grabLatestsReleasesMetadata(); listReleases may reject
Download_grabLatestsReleasesMetadata(registryOk) ==
    /\ Fresh
    /\ call' = [fn |-> "grabLatestsReleasesMetadata", registryOk |-> registryOk,
                result |-> IF registryOk
                           THEN Resolved(<<>>, GrabLatestsReleasesMetadata(releases))
                           ELSE Rejected(<<>>, "listReleases failed")]
    /\ DownloadDone

\* minikubeDownload.getLatestVersionAsset()
Download_getLatestVersionAsset(registryOk) ==
    /\ Fresh
    /\ call' = [fn |-> "getLatestVersionAsset", registryOk |-> registryOk,
                result |-> IF registryOk THEN GetLatestVersionAsset(releases)
                           ELSE Rejected(<<>>, "listReleases failed")]
    /\ DownloadDone

\* what checkUpdate leaves: whether it resolved, whether registerUpdate was called
\* and with which version
Checked(ok, registered, version) ==
    [ok |-> ok, registered |-> registered, version |-> version]

\* checkUpdate(minikubeDownload): tool is whether minikubeCliTool is defined, cli is
\* minikubeCli, output the stdout of `version --short`, data the answer of listReleases
CheckUpdate(tool, cli, versionOk, output, registryOk, data) ==
    IF ~tool \/ cli = Undefined THEN Checked(TRUE, FALSE, NoVersion)
    ELSE IF ~versionOk THEN Checked(TRUE, FALSE, NoVersion)
    ELSE IF ~registryOk THEN Checked(FALSE, FALSE, NoVersion)
    ELSE LET binaryVersion == StripVersion(output)
             lastReleaseMetadata == GetLatestVersionAsset(data).value
         IN  IF lastReleaseMetadata = NoMetadata
             THEN Checked(FALSE, FALSE, NoVersion)
             ELSE LET lastReleaseVersion == StripVersion(lastReleaseMetadata.tag)
                  IN  IF lastReleaseVersion # binaryVersion
                      THEN Checked(TRUE, TRUE, lastReleaseVersion)
                      ELSE Checked(TRUE, FALSE, NoVersion)

\* checkUpdate with the binary of release `installed` at minikubeCli
Ext_checkUpdate(tool, cli, versionOk, installed, registryOk) ==
    /\ Fresh
    /\ call' = [fn |-> "checkUpdate", tool |-> tool, cli |-> cli, versionOk |-> versionOk,
                installed |-> installed, registryOk |-> registryOk,
                result |-> CheckUpdate(tool, cli, versionOk, VersionOutput(installed),
                                       registryOk, releases)]
    /\ DownloadDone

\* the characters of a version string: the prefix, a digit, white space
VersionChars == {"v", "1", " "}

\* what `minikube version --short` may write to stdout
VersionStrings == SeqsUpTo(VersionChars, MaxVersionLen)

\* getMinikubeVersion(executable) once exec resolved with stdout
Util_getMinikubeVersion(stdout) ==
    /\ Fresh
    /\ call' = [fn |-> "getMinikubeVersion", stdout |-> stdout,
                result |-> StripVersion(stdout)]
    /\ DownloadDone

\* os.platform() and os.arch()
Platforms == {"win32", "darwin", "linux"}

Architectures == {"x64", "arm64"}

\* `minikube-${operatingSystem}-${arch}${extension}`
AssetName(operatingSystem, arch, extension) ==
    <<"minikube-", operatingSystem, "-", arch, extension>>

\* the assets a release may have, each with its id
KnownAssets ==
    << [name |-> AssetName("windows", "amd64", ".exe"), id |-> 1],
       [name |-> AssetName("windows", "amd64", ""), id |-> 2],
       [name |-> AssetName("linux", "amd64", ""), id |-> 3],
       [name |-> AssetName("linux", "x64", ""), id |-> 4],
       [name |-> AssetName("darwin", "arm64", ""), id |-> 5] >>

\* the answers of octokit.repos.listReleaseAssets: any of the known assets, in order
AssetLists ==
    { SelectSeq(KnownAssets, LAMBDA asset : asset.id \in ids) :
        ids \in SUBSET (1..Len(KnownAssets)) }

AssetArchRaw(arch) == arch

\* if (arch === 'x64') arch = 'amd64'
AssetArch(arch) == IF arch = "x64" THEN "amd64" ELSE arch

\* if (operatingSystem === 'win32') operatingSystem = 'windows'
AssetOs(operatingSystem) == IF operatingSystem = "win32" THEN "windows" ELSE operatingSystem

\* ... extension = '.exe'
AssetExtension(operatingSystem) == IF operatingSystem = "win32" THEN ".exe" ELSE ""

RECURSIVE FindAsset(_, _, _)
\* listOfAssets.data.find(asset => searchedAssetName === asset.name): the index of
\* the first match, 0 when there is none
FindAsset(listOfAssets, searchedAssetName, k) ==
    IF k > Len(listOfAssets) THEN 0
    ELSE IF listOfAssets[k].name = searchedAssetName THEN k
    ELSE FindAsset(listOfAssets, searchedAssetName, k + 1)

\* getReleaseAssetId(releaseId, operatingSystem, arch) over the assets of the release
GetReleaseAssetId(listOfAssets, operatingSystem, arch) ==
    LET searchedAssetName == AssetName(AssetOs(operatingSystem), AssetArch(arch),
                                       AssetExtension(operatingSystem))
        asset == FindAsset(listOfAssets, searchedAssetName, 1)
    IN  IF asset = 0
        THEN Rejected(<<>>, <<"No asset found for ", AssetOs(operatingSystem), " and ",
                              AssetArch(arch)>>)
        ELSE Resolved(<<>>, listOfAssets[asset].id)

Download_getReleaseAssetId(listOfAssets, operatingSystem, arch) ==
    /\ Fresh
    /\ call' = [fn |-> "getReleaseAssetId", assets |-> listOfAssets,
                operatingSystem |-> operatingSystem, arch |-> arch,
                result |-> GetReleaseAssetId(listOfAssets, operatingSystem, arch)]
    /\ DownloadDone

\* releasesMetadata.filter(release => release.tag.slice(1) !== cliInfo.version)
WithoutVersion(releasesMetadata, version) ==
    SelectSeq(releasesMetadata, LAMBDA release : Slice1(release.tag) # version)

\* the version of the installed binary handed to selectVersion: none (0), or that
\* of release i
InstalledVersions == 0..MaxReleases

\* what selectVersion leaves: the list handed to showQuickPick (empty when the prompt
\* was not reached) and the promise
Selected(offered, result) == [offered |-> offered, result |-> result]

\* window.showQuickPick(items): the pick-th item, or the prompt dismissed (undefined)
ShowQuickPick(items, pick, message) ==
    IF pick \notin 1..Len(items) THEN Selected(items, Rejected(<<>>, message))
    ELSE Selected(items, Resolved(<<>>, items[pick]))

\* MinikubeDownload.selectVersion(cliInfo)
SelectVersion(data, registryOk, installed, pick) ==
    IF ~registryOk THEN Selected(<<>>, Rejected(<<>>, "listReleases failed"))
    ELSE LET releasesMetadata == GrabLatestsReleasesMetadata(data)
         IN  IF Len(releasesMetadata) = 0
             THEN Selected(<<>>, Rejected(<<>>, "cannot grab minikube releases"))
             ELSE ShowQuickPick(IF installed # 0
                                THEN WithoutVersion(releasesMetadata, <<Digits[installed]>>)
                                ELSE releasesMetadata,
                                pick, "No version selected")

\* MinikubeCli.selectVersion()
CliSelectVersion(data, registryOk, installed, pick) ==
    IF ~registryOk THEN Selected(<<>>, Rejected(<<>>, "listReleases failed"))
    ELSE LET lastReleasesMetadata == GrabLatestsReleasesMetadata(data)
         IN  ShowQuickPick(IF installed # 0
                           THEN WithoutVersion(lastReleasesMetadata, <<Digits[installed]>>)
                           ELSE lastReleasesMetadata,
                           pick, "No version selected")

\* a selectVersion is over: the user picked the pick-th item offered, if there is one
SelectVersionCall(impl, selected, registryOk, installed, pick) ==
    /\ pick <= Len(selected.offered)
    /\ call' = [fn |-> "selectVersion", impl |-> impl, registryOk |-> registryOk,
                installed |-> installed, pick |-> pick, offered |-> selected.offered,
                result |-> selected.result]
    /\ DownloadDone

Download_selectVersion(registryOk, installed, pick) ==
    /\ Fresh
    /\ SelectVersionCall("MinikubeDownload",
                         SelectVersion(releases, registryOk, installed, pick),
                         registryOk, installed, pick)

Cli_selectVersionOver(registryOk, installed, pick) ==
    /\ Fresh
    /\ SelectVersionCall("MinikubeCli",
                         CliSelectVersion(releases, registryOk, installed, pick),
                         registryOk, installed, pick)

DownloadInit ==
    /\ ReconcilerInit
    /\ controller = "extension.ts"
    /\ fs = [p \in Paths |-> NoFile]
    /\ LifecycleStart
    /\ releases \in ReleaseLists
    /\ call = NoCall

NextDownload ==
    \/ \E files \in InstallFiles, id \in 1..MaxListed, outcome \in DownloadOutcomes,
          promoted \in BOOLEAN : Download_install(files, id, outcome, promoted)
    \/ \E registryOk \in BOOLEAN : Download_grabLatestsReleasesMetadata(registryOk)
    \/ \E registryOk \in BOOLEAN : Download_getLatestVersionAsset(registryOk)
    \/ \E tool \in BOOLEAN, cli \in {Undefined, SystemPath}, versionOk \in BOOLEAN,
          installed \in 1..MaxReleases, registryOk \in BOOLEAN :
          Ext_checkUpdate(tool, cli, versionOk, installed, registryOk)
    \/ \E stdout \in VersionStrings : Util_getMinikubeVersion(stdout)
    \/ \E listOfAssets \in AssetLists, operatingSystem \in Platforms, arch \in Architectures :
          Download_getReleaseAssetId(listOfAssets, operatingSystem, arch)
    \/ \E registryOk \in BOOLEAN, installed \in InstalledVersions, pick \in 0..MaxRetained :
          Download_selectVersion(registryOk, installed, pick)
    \/ \E registryOk \in BOOLEAN, installed \in InstalledVersions, pick \in 0..MaxRetained :
          Cli_selectVersionOver(registryOk, installed, pick)

SpecDownload == DownloadInit /\ [][NextDownload]_vars


(***************************************************************************)
(* ImageHandler.moveImage (image-handler.ts), deleteFile (util.ts) and     *)
(* findMinikube (download.ts), each called on its own over every input and *)
(* every outcome of the calls it makes.                                    *)
(***************************************************************************)
FalsyOnlyUndefined(value) == value = Undefined

\* !value for the strings moveImage tests
Falsy(value) == value \in {Undefined, ""}

ImageNames == {Undefined, "", "nginx"}

ImageTags == {Undefined, "latest"}

Images == [engineId : {"podman"}, name : ImageNames, tag : ImageTags]

\* an entry of minikubeClusters as moveImage receives it
MinikubeCluster(i, status) ==
    [name |-> <<"minikube", i>>, status |-> status, apiPort |-> 0, engineType |-> "podman"]

ClusterLists ==
    UNION { { [i \in 1..n |-> MinikubeCluster(i, status[i])] :
              status \in [1..n -> {"started", "stopped"}] } : n \in 0..MaxClusters }

\* the name tmpName() resolves with; it names a file and does not create it
TmpName == "/tmp/tmp-1"

SaveOutcomes == {"ok", "failsBeforeWrite", "failsAfterWrite"}

StartedClustersAll(clusterList) == clusterList

\* minikubeClusters.filter(cluster => cluster.status === 'started')
StartedClusters(clusterList) ==
    SelectSeq(clusterList, LAMBDA cluster : cluster.status = "started")

\* clusters.map(cluster => ({ label: cluster.name, engineType: cluster.engineType }))
QuickPickItems(clusters) ==
    [k \in 1..Len(clusters) |->
        [label |-> clusters[k].name, engineType |-> clusters[k].engineType]]

\* how moveImage settles: resolved or rejected with error, the calls it made in
\* order, the name of its temporary file and whether that file exists
Moved(ok, error, events, filename, exists) ==
    [ok |-> ok, error |-> error, events |-> events, filename |-> filename,
     exists |-> exists]

RmTempNever(written, rmOk) == [error |-> <<>>, exists |-> written]

\* fs.promises.rm(filename) of the finally block: rejects when there is no such
\* file, and when the file system refuses the removal
RmTemp(written, rmOk) ==
    IF ~written THEN [error |-> <<"ENOENT: no such file or directory, rm ", TmpName>>,
                      exists |-> FALSE]
    ELSE IF rmOk THEN [error |-> <<>>, exists |-> FALSE]
    ELSE [error |-> <<"rm failed">>, exists |-> TRUE]

\* the body of `if (selectedCluster)`
PushImage(image, selectedCluster, cli, prompt, tmpOk, save, loadOk, rmOk) ==
    LET name == IF Falsy(image.tag) THEN <<image.name>> ELSE <<image.name, ":", image.tag>>
        ShowError(err) ==
            [op |-> "showErrorMessage",
             text |-> <<"Unable to push image ", image.name, " to minikube cluster: ",
                        selectedCluster.label, ". Error: ", err>>]
        Thrown(err) == <<"Unable to push image to minikube cluster: ", err>>
        saveImage == [op |-> "saveImage", engineId |-> image.engineId, name |-> name,
                      filename |-> TmpName]
        exec == [op |-> "exec", command |-> cli,
                 args |-> <<"-p", selectedCluster.label, "image", "load", TmpName>>]
        showInformation ==
            [op |-> "showInformationMessage",
             text |-> <<"Image ", image.name, " pushed to minikube cluster: ",
                        selectedCluster.label>>]
    IN  IF ~tmpOk
        THEN Moved(FALSE, Thrown("tmpName failed"),
                   prompt \o <<ShowError("tmpName failed")>>, Undefined, FALSE)
        ELSE LET body ==
                     IF save # "ok"
                     THEN [ok |-> FALSE, error |-> Thrown("saveImage failed"),
                           events |-> <<saveImage, ShowError("saveImage failed")>>]
                     ELSE IF ~loadOk
                     THEN [ok |-> FALSE, error |-> Thrown("exec failed"),
                           events |-> <<saveImage, exec, ShowError("exec failed")>>]
                     ELSE [ok |-> TRUE, error |-> <<>>,
                           events |-> <<saveImage, exec, showInformation>>]
                 removal == RmTemp(save # "failsBeforeWrite", rmOk)
                 events == prompt \o body.events \o <<[op |-> "rm", path |-> TmpName]>>
             IN  IF removal.error = <<>>
                 THEN Moved(body.ok, body.error, events, TmpName, removal.exists)
                 ELSE Moved(FALSE, removal.error, events, TmpName, removal.exists)

\* moveImage(image, minikubeClusters, minikubeCli); pick is the item chosen in the
\* quick pick, 0 when it is dismissed
MoveImage(image, clusterList, cli, pick, tmpOk, save, loadOk, rmOk) ==
    IF Falsy(image.name)
    THEN Moved(FALSE, <<"Image selection not supported yet">>, <<>>, Undefined, FALSE)
    ELSE LET clusters == StartedClusters(clusterList)
         IN  IF Len(clusters) = 0
             THEN Moved(FALSE, <<"No minikube clusters to push to">>, <<>>, Undefined, FALSE)
             ELSE IF Len(clusters) = 1
             THEN PushImage(image, QuickPickItems(clusters)[1], cli, <<>>,
                            tmpOk, save, loadOk, rmOk)
             ELSE LET items == QuickPickItems(clusters)
                      prompt == <<[op |-> "showQuickPick", items |-> items]>>
                  IN  IF pick \notin 1..Len(items)
                      THEN Moved(TRUE, <<>>, prompt, Undefined, FALSE)
                      ELSE PushImage(image, items[pick], cli, prompt,
                                     tmpOk, save, loadOk, rmOk)

CallDone == UNCHANGED <<releases, reconcilerVars, lifecycleVars, providerVars>>

Image_moveImage(image, clusterList, pick, tmpOk, save, loadOk, rmOk) ==
    /\ Fresh
    /\ pick <= Len(StartedClusters(clusterList))
    /\ call' = [fn |-> "moveImage", image |-> image, clusters |-> clusterList,
                pick |-> pick, tmpOk |-> tmpOk, save |-> save, loadOk |-> loadOk,
                rmOk |-> rmOk,
                result |-> MoveImage(image, clusterList, minikubeCli, pick, tmpOk,
                                     save, loadOk, rmOk)]
    /\ CallDone

\* the file systems deleteFile and findMinikube are called on
FileSystems == [Paths -> {NoFile, 1}]

\* deleteFile(filePath)
Util_deleteFile(files, filePath, code, adminOk, isWindows) ==
    /\ Fresh
    /\ call' = [fn |-> "deleteFile", files |-> files, filePath |-> filePath,
                code |-> code, adminOk |-> adminOk, isWindows |-> isWindows,
                calls |-> DeleteFileCalls(files, filePath, code, adminOk, isWindows),
                result |-> DeleteFile(files, filePath, DeleteOutcomeOf(code, adminOk))]
    /\ CallDone

\* minikubeDownload.findMinikube()
Download_findMinikube(files, where) ==
    /\ Fresh
    /\ where \in WhereBinaryResults(files)
    /\ call' = [fn |-> "findMinikube", files |-> files, where |-> where,
                result |-> FindMinikube(files, where)]
    /\ CallDone

\* the parameters of the creation form; each may be absent
CreationParams ==
    [name : {Undefined, "", "dev"}, driver : {Undefined, "podman"},
     runtime : {Undefined, "cri-o"}, baseImage : {Undefined, "", "kicbase"},
     mountString : {Undefined, "", "/host:/guest"}]

\* value ?? fallback
OrElse(value, fallback) == IF value = Undefined THEN fallback ELSE value

StartArgsMountFirst(params) ==
    <<"start", "--profile", OrElse(params.name, "minikube"),
      "--driver", OrElse(params.driver, "docker"),
      "--container-runtime", OrElse(params.runtime, "docker")>>
    \o (IF Falsy(params.mountString) THEN <<>>
        ELSE <<"--mount", "--mount-string", params.mountString>>)
    \o (IF Falsy(params.baseImage) THEN <<>> ELSE <<"--base-image", params.baseImage>>)

\* startArgs of createCluster
StartArgs(params) ==
    <<"start", "--profile", OrElse(params.name, "minikube"),
      "--driver", OrElse(params.driver, "docker"),
      "--container-runtime", OrElse(params.runtime, "docker")>>
    \o (IF Falsy(params.baseImage) THEN <<>> ELSE <<"--base-image", params.baseImage>>)
    \o (IF Falsy(params.mountString) THEN <<>>
        ELSE <<"--mount", "--mount-string", params.mountString>>)

\* what processApi.exec settles with: resolved, rejected with an Error, rejected
\* with a value that is no Error
ExecOutcomes == {"ok", "Error", "value"}

\* error instanceof Error ? error.message : error
ErrorMessage(outcome) == IF outcome = "Error" THEN "exit code 1" ELSE "spawn failed"

CreateClusterLogsBoth(params, cli, outcome) ==
    LET telemetry == [driver |-> OrElse(params.driver, "docker"),
                      runtime |-> OrElse(params.runtime, "docker")]
    IN  [ok |-> outcome = "ok",
         error |-> IF outcome = "ok" THEN <<>>
                   ELSE <<"Failed to create minikube cluster. ", ErrorMessage(outcome)>>,
         exec |-> <<[command |-> cli, args |-> StartArgs(params)]>>,
         usage |-> <<[event |-> "createCluster", data |-> telemetry]>>,
         errors |-> IF outcome = "ok" THEN <<>>
                    ELSE <<[event |-> "createCluster", data |-> telemetry,
                            error |-> ErrorMessage(outcome),
                            stdErr |-> ErrorMessage(outcome)]>>]

\* createCluster(params, logger, minikubeCli, telemetryLogger, token): how it
\* settles, the exec it made, and what it logged with logUsage and logError
CreateCluster(params, cli, outcome) ==
    LET telemetry == [driver |-> OrElse(params.driver, "docker"),
                      runtime |-> OrElse(params.runtime, "docker")]
    IN  [ok |-> outcome = "ok",
         error |-> IF outcome = "ok" THEN <<>>
                   ELSE <<"Failed to create minikube cluster. ", ErrorMessage(outcome)>>,
         exec |-> <<[command |-> cli, args |-> StartArgs(params)]>>,
         usage |-> IF outcome = "ok"
                   THEN <<[event |-> "createCluster", data |-> telemetry]>> ELSE <<>>,
         errors |-> IF outcome = "ok" THEN <<>>
                    ELSE <<[event |-> "createCluster", data |-> telemetry,
                            error |-> ErrorMessage(outcome),
                            stdErr |-> ErrorMessage(outcome)]>>]

\* the connection factory of registerProvider calls createCluster
Create_createCluster(params, outcome) ==
    /\ Fresh
    /\ call' = [fn |-> "createCluster", params |-> params, outcome |-> outcome,
                result |-> CreateCluster(params, minikubeCli, outcome)]
    /\ CallDone

\* how doUpdate settles, what it leaves of the CLI tool and of the files, and
\* whether it disposed the registration of the update
Updated(ok, error, files, tool, disposed) ==
    [ok |-> ok, error |-> error, fs |-> files, cliTool |-> tool, disposed |-> disposed]

\* doUpdate registered by checkUpdate: install, updateVersion, dispose
CheckUpdateDoUpdate(tool, files, release, outcome, promoted) ==
    LET destFile == Install(files, release, outcome, promoted)
    IN  IF ~destFile.ok THEN Updated(FALSE, destFile.value, destFile.fs, tool, FALSE)
        ELSE Updated(TRUE, "", destFile.fs,
                     UpdateVersion(tool, [version |-> StripVersion(release.tag),
                                          path |-> destFile.value]),
                     TRUE)

\* doUpdate registered by postActivate: download, installBinaryToSystem,
\* updateVersion({ version }), dispose, all inside a try whose catch only logs
PostActivateDoUpdate(tool, files, release, outcome, promoted) ==
    LET destFile == Download(files, release, outcome)
    IN  IF ~destFile.ok THEN Updated(TRUE, "", destFile.fs, tool, FALSE)
        ELSE LET copied == InstallBinaryToSystem(destFile.fs, destFile.value, promoted)
             IN  IF ~copied.ok THEN Updated(TRUE, "", copied.fs, tool, FALSE)
                 ELSE Updated(TRUE, "", copied.fs,
                              [tool EXCEPT !.version = StripVersion(release.tag)], TRUE)

UpdateVariants == {"checkUpdate", "postActivate"}

\* the host runs doUpdate of a registered update: the binary of release
\* `installed` is at `cli`, the update offers release `latest`
Ext_doUpdate(variant, cli, installed, latest, outcome, promoted) ==
    /\ Fresh
    /\ latest # installed
    /\ LET tool == [version |-> StripVersion(VersionOutput(installed)), path |-> cli]
           files == [q \in Paths |-> IF q = cli THEN installed ELSE NoFile]
       IN  call' = [fn |-> "doUpdate", variant |-> variant, tool |-> tool,
                    files |-> files, latest |-> latest, outcome |-> outcome,
                    promoted |-> promoted,
                    result |-> IF variant = "checkUpdate"
                               THEN CheckUpdateDoUpdate(tool, files, Release(latest),
                                                        outcome, promoted)
                               ELSE PostActivateDoUpdate(tool, files, Release(latest),
                                                         outcome, promoted)]
    /\ CallDone

\* the extension is active and has found the binary; nothing was called yet
CallsInit ==
    /\ ReconcilerInit
    /\ controller = "extension.ts"
    /\ fs = [p \in Paths |-> IF p = SystemPath THEN 1 ELSE NoFile]
    /\ pc = "ready"
    /\ cliInfo = NoInfo
    /\ cliTool = [version |-> StripVersion(VersionOutput(1)), path |-> SystemPath]
    /\ minikubeCli = SystemPath
    /\ artifact = NoArtifact
    /\ lastSelected = NoArtifact
    /\ last = [NoOperation EXCEPT !.op = "activate"]
    /\ releases = RegistryReleases
    /\ call = NoCall

NextCalls ==
    \/ \E image \in Images, clusterList \in ClusterLists, pick \in 0..MaxClusters,
          tmpOk \in BOOLEAN, save \in SaveOutcomes, loadOk \in BOOLEAN, rmOk \in BOOLEAN :
          Image_moveImage(image, clusterList, pick, tmpOk, save, loadOk, rmOk)
    \/ \E files \in FileSystems, filePath \in Paths \cup {Undefined}, code \in UnlinkCodes,
          adminOk \in BOOLEAN, isWindows \in BOOLEAN :
          Util_deleteFile(files, filePath, code, adminOk, isWindows)
    \/ \E files \in FileSystems, where \in {Undefined, SystemPath, ExternalPath} :
          Download_findMinikube(files, where)
    \/ \E params \in CreationParams, outcome \in ExecOutcomes :
          Create_createCluster(params, outcome)
    \/ \E variant \in UpdateVariants, cli \in {SystemPath, ExternalPath},
          installed \in 1..MaxReleases, latest \in 1..MaxReleases,
          outcome \in DownloadOutcomes, promoted \in BOOLEAN :
          Ext_doUpdate(variant, cli, installed, latest, outcome, promoted)

SpecCalls == CallsInit /\ [][NextCalls]_vars


(***************************************************************************)
(* The lifecycle of a registered connection (extension.ts): the host calls *)
(* start, stop or delete of a connection the reconciler has registered.    *)
(***************************************************************************)
LifecycleOperations == {"start", "stop", "delete"}

\* the arguments each operation hands to process.exec
LifecycleArgs(operation, name) ==
    CASE operation = "start" -> <<"start", "--profile", name>>
      [] operation = "stop" -> <<"stop", "--profile", name, "--keep-context-active">>
      [] operation = "delete" -> <<"delete", "--profile", name>>

ConnectionLifecycleSwallowing(connection, operation, cli, execOk) ==
    [calls |-> <<[command |-> cli,
                  args |-> LifecycleArgs(operation, connection.lifecycle.profile)]>>,
     ok |-> operation = "start" \/ execOk,
     error |-> IF operation = "start" \/ execOk THEN "" ELSE "exec failed"]

\* connection.lifecycle.start / stop / delete: one process.exec of minikubeCli;
\* start catches its error, logs it and throws it again
ConnectionLifecycle(connection, operation, cli, execOk) ==
    [calls |-> <<[command |-> cli,
                  args |-> LifecycleArgs(operation, connection.lifecycle.profile)]>>,
     ok |-> execOk,
     error |-> IF execOk THEN "" ELSE "exec failed"]

\* the host calls an operation of the k-th registered connection
Connection_lifecycle(k, operation, execOk) ==
    /\ k \in 1..Len(registeredKubernetesConnections)
    /\ call' = [fn |-> "lifecycle", name |-> registeredKubernetesConnections[k].name,
                operation |-> operation, execOk |-> execOk,
                result |-> ConnectionLifecycle(registeredKubernetesConnections[k],
                                               operation, minikubeCli, execOk)]
    /\ UNCHANGED <<releases, reconcilerVars, lifecycleVars, providerVars>>

\* the container lists of the passes that register the connections
ConnectionLists == SeqsUpTo(Containers, 1)

NextConnections ==
    \/ \E t \in EventTypes, l \in ConnectionLists :
          inflight = <<>> /\ ContainerEvent(t, l)
    \/ \E l \in ConnectionLists : inflight = <<>> /\ ContainerConnectionEvent(l)
    \/ \E l \in ConnectionLists : inflight = <<>> /\ ProviderUpdate(l)
    \/ \E i \in 1..MaxInFlight : ResumeSearch(i)
    \/ \E k \in 1..MaxRegistrations, operation \in LifecycleOperations, execOk \in BOOLEAN :
          Connection_lifecycle(k, operation, execOk)

SpecConnections == CallsInit /\ [][NextConnections]_vars


(***************************************************************************)
(* runCliCommand (util.ts): one run of the binary as a child process, the  *)
(* events of the child and of the cancellation token in any order.         *)
(***************************************************************************)
\* the exit code of a child that was ended by a signal
NoExitCode == -1

ExitCodes == {0, 1, NoExitCode}

\* what the child writes
OutputChunks == {"error: no such profile", "done"}

Pending == [state |-> "pending", message |-> <<>>, stdOut |-> <<>>, stdErr |-> <<>>,
            error |-> <<>>]

\* resolve({ stdOut, stdErr, error: err })
ResolvedWith(stdOut, stdErr, err) ==
    [state |-> "resolved", message |-> <<>>, stdOut |-> stdOut, stdErr |-> stdErr,
     error |-> err]

\* reject(new Error(message))
RejectedWith(message) ==
    [state |-> "rejected", message |-> message, stdOut |-> <<>>, stdErr |-> <<>>,
     error |-> <<>>]

SettleLast(promise, outcome) == outcome

\* resolve and reject of a promise: only the first one counts
SettlePromise(promise, outcome) ==
    IF promise.state = "pending" THEN outcome ELSE promise

Running == call.fn = "runCliCommand"

RunDone == UNCHANGED <<releases, reconcilerVars, lifecycleVars, providerVars>>

\* runCliCommand(command, args, options, token): spawn and subscribe
Run_spawn(hasToken, isWindows, firstArg) ==
    /\ Fresh
    /\ call' = [fn |-> "runCliCommand", hasToken |-> hasToken, isWindows |-> isWindows,
                firstArg |-> firstArg, child |-> "running", exitCode |-> NoExitCode,
                stdOut |-> <<>>, stdErr |-> <<>>, err |-> <<>>, cancelled |-> FALSE,
                kills |-> <<>>, events |-> <<>>, promise |-> Pending]
    /\ RunDone

\* token.onCancellationRequested: killProcess, then reject
Run_cancelled ==
    /\ Running
    /\ call.hasToken
    /\ ~call.cancelled
    /\ call' = [call EXCEPT
                  !.cancelled = TRUE,
                  !.kills = Append(@, IF call.isWindows THEN "taskkill" ELSE "kill"),
                  !.events = Append(@, "cancel"),
                  !.promise = SettlePromise(@, RejectedWith(<<"Execution cancelled">>))]
    /\ RunDone

\* spawnProcess.on('error')
Run_error ==
    /\ Running
    /\ call.child = "running"
    /\ call.err = <<>>
    /\ Len(call.stdOut) + Len(call.stdErr) < MaxOutput
    /\ call' = [call EXCEPT !.stdErr = Append(@, "Error: spawn ENOENT"),
                            !.err = Append(@, "Error: spawn ENOENT")]
    /\ RunDone

\* spawnProcess.stdout.on('data')
Run_stdout(data) ==
    /\ Running
    /\ call.child = "running"
    /\ Len(call.stdOut) + Len(call.stdErr) < MaxOutput
    /\ call' = [call EXCEPT !.stdOut = Append(@, data)]
    /\ RunDone

\* spawnProcess.stderr.on('data')
Run_stderr(data) ==
    /\ Running
    /\ call.child = "running"
    /\ Len(call.stdOut) + Len(call.stdErr) < MaxOutput
    /\ call' = IF call.firstArg \in {"create", "delete"} /\ data # "error: no such profile"
               THEN [call EXCEPT !.stdOut = Append(@, data)]
               ELSE [call EXCEPT !.stdErr = Append(@, data)]
    /\ RunDone

\* spawnProcess.on('close')
Run_close(exitCode) ==
    /\ Running
    /\ call.child = "running"
    /\ call' = [call EXCEPT
                  !.child = "closed",
                  !.exitCode = exitCode,
                  !.events = Append(@, "close"),
                  !.promise = SettlePromise(@,
                                 IF exitCode = 0
                                 THEN ResolvedWith(call.stdOut, call.stdErr, call.err)
                                 ELSE RejectedWith(call.stdErr))]
    /\ RunDone

NextRun ==
    \/ \E hasToken \in BOOLEAN, isWindows \in BOOLEAN, firstArg \in {"version", "delete"} :
          Run_spawn(hasToken, isWindows, firstArg)
    \/ Run_cancelled
    \/ Run_error
    \/ \E data \in OutputChunks : Run_stdout(data)
    \/ \E data \in OutputChunks : Run_stderr(data)
    \/ \E exitCode \in ExitCodes : Run_close(exitCode)

SpecRun == CallsInit /\ [][NextRun]_vars


(***************************************************************************)
(* The provider (extension.ts): activate, createProvider, the handlers of  *)
(* the CLI tool's update and uninstall events, and the event handlers that *)
(* createProvider subscribes.  A search runs as one step here: the list is *)
(* the one listContainers answers with when the search resumes.            *)
(***************************************************************************)
\* the provider p was created and not disposed
Alive(p) == p \in 1..Len(providers) /\ providers[p] = "alive"

\* the identities of the connections the calls of a pass registered
RegisteredBy(calls) ==
    { calls[k].id : k \in { j \in 1..Len(calls) : calls[j].op = "register" } }

\* searchMinikubeClusters(p): listContainers, filter, updateClusters(p, containers);
\* what the pass registers it registers with p
SearchMinikubeClusters(p, allContainers, trigger) ==
    LET containers == FilterMinikubeContainers(allContainers)
        r == UpdateClustersResult(containers, registeredKubernetesConnections,
                                  providerConnections, nextId)
    IN  /\ r.next <= MaxOwned + 1
        /\ minikubeClusters' = r.clusters
        /\ registeredKubernetesConnections' = r.reg
        /\ providerConnections' = r.live
        /\ nextId' = r.next
        /\ latestTriggered' = [any |-> TRUE, all |-> allContainers]
        /\ lastPass' = [ran |-> TRUE, all |-> allContainers, others |-> 0,
                        calls |-> r.calls,
                        kept |-> Named(registeredKubernetesConnections,
                                    Names(minikubeClusters) \cap Names(r.clusters)),
                        gone |-> Named(registeredKubernetesConnections,
                                    Names(minikubeClusters) \ Names(r.clusters))]
        /\ owner' = owner \cup { [id |-> i, provider |-> p] : i \in RegisteredBy(r.calls) }
        /\ passOn' = [provider |-> p, alive |-> Alive(p), trigger |-> trigger]
        /\ UNCHANGED inflight

\* createProvider up to its first await: the provider is created, and the search of
\* registerProvider is suspended at listContainers
StartCreateProvider(caller) ==
    /\ Len(providers) < MaxProviders
    /\ providers' = Append(providers, "alive")
    /\ creating' = Append(creating, [id |-> Len(providers) + 1, stage |-> "register",
                                     caller |-> caller])

\* activate(): findMinikube, getMinikubeVersion, and createProvider when a binary
\* was found; the CLI tool and its handlers exist once createProvider returned
Prov_activate(where, versionOk) ==
    IF FindMinikube(fs, where).value = Undefined \/ ~versionOk
    THEN Ext_activate(where, versionOk)
    ELSE /\ controller = "extension.ts"
         /\ pc = "init"
         /\ pc' = "activating"
         /\ minikubeCli' = FindMinikube(fs, where).value
         /\ StartCreateProvider("activate")
         /\ UNCHANGED <<controller, fs, cliInfo, cliTool, artifact, lastSelected, last,
                        reconcilerVars, downloadVars, provider, handlers, owner, passOn>>

\* createProvider from the search of registerProvider to the search on boot: the
\* first search resumes, the event handlers are subscribed, the second is suspended
Prov_registered(i, allContainers) ==
    /\ i \in 1..Len(creating)
    /\ creating[i].stage = "register"
    /\ SearchMinikubeClusters(creating[i].id, allContainers, "createProvider")
    /\ handlers' = handlers \cup {creating[i].id}
    /\ creating' = [creating EXCEPT ![i].stage = "boot"]
    /\ UNCHANGED <<lifecycleVars, downloadVars, provider, providers>>

\* the search on boot resumes, createProvider returns and its caller assigns
\* `provider`; activate goes on to createCliTool and registerInstaller
Prov_booted(i, allContainers) ==
    /\ i \in 1..Len(creating)
    /\ creating[i].stage = "boot"
    /\ SearchMinikubeClusters(creating[i].id, allContainers, "createProvider")
    /\ creating' = RemoveAt(creating, i)
    /\ provider' = creating[i].id
    /\ IF creating[i].caller = "activate"
       THEN /\ pc' = "ready"
            /\ cliTool' = [version |-> StripVersion(VersionOutput(fs[minikubeCli])),
                           path |-> minikubeCli]
            /\ last' = [NoOperation EXCEPT !.op = "activate"]
       ELSE UNCHANGED <<pc, cliTool, last>>
    /\ UNCHANGED <<controller, fs, cliInfo, minikubeCli, artifact, lastSelected,
                   downloadVars, providers, handlers>>

\* the host has an event of the CLI tool to deliver: updateVersion of doInstall
\* fires onDidUpdateVersion, a doUninstall that resolved fires onDidUninstall
EventPending == last.op \in {"doInstall", "doUninstall"} /\ last.ok

\* minikubeCliTool.onDidUpdateVersion handler up to its first await
Prov_onDidUpdateVersion ==
    /\ controller = "extension.ts"
    /\ pc = "ready"
    /\ last.op = "doInstall"
    /\ last.ok
    /\ IF provider # NoProvider
       THEN UNCHANGED <<providers, creating>>
       ELSE StartCreateProvider("update")
    /\ last' = [NoOperation EXCEPT !.op = "onDidUpdateVersion", !.before = Before]
    /\ UNCHANGED <<controller, pc, fs, cliInfo, cliTool, minikubeCli, artifact,
                   lastSelected, reconcilerVars, downloadVars, provider, handlers,
                   owner, passOn>>

\* minikubeCliTool.onDidUninstall handler
Prov_onDidUninstall ==
    /\ controller = "extension.ts"
    /\ pc = "ready"
    /\ last.op = "doUninstall"
    /\ last.ok
    /\ providers' = IF provider = NoProvider THEN providers
                    ELSE [providers EXCEPT ![provider] = "disposed"]
    /\ provider' = NoProvider
    /\ minikubeCli' = Undefined
    /\ last' = [NoOperation EXCEPT !.op = "onDidUninstall", !.before = Before]
    /\ UNCHANGED <<controller, pc, fs, cliInfo, cliTool, artifact, lastSelected,
                   reconcilerVars, downloadVars, creating, handlers, owner, passOn>>

\* the containerEngine.onEvent handler that createProvider subscribed for the
\* provider p runs: the subscription is never disposed of, and the handler holds
\* the p it was created with
Prov_onEvent(p, type, allContainers) ==
    /\ p \in handlers
    /\ type = "container"
    /\ SearchMinikubeClusters(p, allContainers, "event")
    /\ UNCHANGED <<lifecycleVars, downloadVars, provider, providers, creating, handlers>>

\* the handlers of onDidUpdateContainerConnection, onDidRegisterContainerConnection,
\* onDidUnregisterContainerConnection and onDidUpdateProvider, subscribed and kept
\* in the same way
Prov_onDidUpdate(p, allContainers) ==
    /\ p \in handlers
    /\ SearchMinikubeClusters(p, allContainers, "event")
    /\ UNCHANGED <<lifecycleVars, downloadVars, provider, providers, creating, handlers>>

\* the k-th registered connection is one the host shows: the provider it was
\* registered with is alive and its registration was not disposed of
Shown(k) ==
    /\ k \in 1..Len(registeredKubernetesConnections)
    /\ registeredKubernetesConnections[k].id \in { l.id : l \in providerConnections }
    /\ \E o \in owner : o.id = registeredKubernetesConnections[k].id /\ Alive(o.provider)

\* the host calls an operation of a connection it shows; process.exec has no
\* binary to run when the path is absent (SpecConnections has the runs that fail)
Prov_lifecycle(k, operation, execOk) ==
    /\ Shown(k)
    /\ execOk = (minikubeCli # Undefined)
    /\ Connection_lifecycle(k, operation, execOk)

\* the lists the searches are answered with: no container, or the one of a
\* running cluster
ProviderLists ==
    { l \in ConnectionLists : \A k \in 1..Len(l) : l[k].Labels = "a" /\ l[k].State = "running" }

\* a binary on the system path, or none
ProviderFiles ==
    { [p \in Paths |-> NoFile], [p \in Paths |-> IF p = SystemPath THEN 1 ELSE NoFile] }

ProviderInit ==
    /\ ReconcilerInit
    /\ controller = "extension.ts"
    /\ fs \in ProviderFiles
    /\ LifecycleStart
    /\ DownloadStart

\* the installer is called when the host has no event left to deliver; the
\* registry answers, a release is picked, and the download and the removal succeed
\* (SpecLifecycle has their failures, which touch neither provider nor connection)
NextProvider ==
    \/ \E where \in WhereBinaryResults(fs), versionOk \in BOOLEAN : Prov_activate(where, versionOk)
    \/ \E i \in 1..MaxProviders, l \in ProviderLists : Prov_registered(i, l)
    \/ \E i \in 1..MaxProviders, l \in ProviderLists : Prov_booted(i, l)
    \/ \E registryOk \in {TRUE}, pick \in {1} :
          ~EventPending /\ Ext_selectVersion(registryOk, pick)
    \/ \E outcome \in {"ok"}, promoted \in {TRUE} :
          /\ ~EventPending
          /\ provider # NoProvider \/ Len(providers) < MaxProviders
          /\ Ext_doInstall(outcome, promoted)
    \/ \E outcome \in {"ok"} : ~EventPending /\ Ext_doUninstall(outcome)
    \/ Prov_onDidUpdateVersion
    \/ Prov_onDidUninstall
    \/ \E p \in 1..MaxProviders, t \in EventTypes, l \in ProviderLists :
          Prov_onEvent(p, t, l)
    \/ \E p \in 1..MaxProviders, l \in ProviderLists : Prov_onDidUpdate(p, l)
    \/ \E k \in 1..MaxOwned, operation \in LifecycleOperations, execOk \in BOOLEAN :
          Prov_lifecycle(k, operation, execOk)

SpecProvider == ProviderInit /\ [][NextProvider]_vars


(***************************************************************************)
(* Properties of the reconciler.                                           *)
(***************************************************************************)
\* the clusters a pass derives from the list listContainers answered with
Derived(allContainers) == ToClusters(FilterMinikubeContainers(allContainers))

\* the last cluster of that name in a derived list
LastNamed(clusters, name) ==
    clusters[CHOOSE k \in 1..Len(clusters) :
                /\ clusters[k].name = name
                /\ \A j \in (k + 1)..Len(clusters) : clusters[j].name # name]

CallsOf(calls, op, id) ==
    { i \in 1..Len(calls) : calls[i].op = op /\ calls[i].id = id }

\* C1: after every pass the names of the registered connections are exactly the
\* cluster names derived from the list that pass processed, one connection per
\* name, also when several clusters disappear in one pass.
C1_ConnectionsMatchClusters ==
    lastPass.ran =>
        /\ Names(registeredKubernetesConnections) = Names(Derived(lastPass.all))
        /\ Cardinality(Names(registeredKubernetesConnections))
              = Len(registeredKubernetesConnections)

\* C2: a cluster name listed by two consecutive passes keeps its connection
\* object: the second pass neither registers nor disposes it, leaves its name and
\* lifecycle alone, and sets its status and apiURL to those of the second pass.
C2_ConnectionIdentityPreserved ==
    lastPass.ran =>
        \A old \in lastPass.kept :
            LET now == Named(registeredKubernetesConnections, {old.name})
                cluster == LastNamed(Derived(lastPass.all), old.name)
            IN  /\ now = { [old EXCEPT !.status = cluster.status,
                                       !.apiURL = ApiURL(cluster.apiPort)] }
                /\ \A i \in 1..Len(lastPass.calls) :
                      /\ lastPass.calls[i].id # old.id
                      /\ lastPass.calls[i].name # old.name

\* C2 witness: a pass has kept a connection and changed its status and its apiURL
C2_Witness ==
    /\ lastPass.ran
    /\ \E old \in lastPass.kept :
          \E now \in Named(registeredKubernetesConnections, {old.name}) :
              /\ now.id = old.id
              /\ now.status # old.status
              /\ now.apiURL # old.apiURL

\* C3: a connection whose cluster the previous pass listed and this pass lists no
\* more is disposed exactly once, during this pass, and no disposable is ever
\* disposed a second time.
C3_DisposedOnceWhenGone ==
    lastPass.ran =>
        /\ \A old \in lastPass.gone :
              Cardinality(CallsOf(lastPass.calls, "dispose", old.id)) = 1
        /\ \A i \in 1..Len(lastPass.calls) :
              lastPass.calls[i].op = "dispose" => lastPass.calls[i].live

\* C4: however passes overlap, registerKubernetesProviderConnection is never
\* called for a name the provider holds an undisposed connection of, and the
\* registry never holds two entries of one name.
C4_NoDuplicateRegistration ==
    /\ \A i \in 1..Len(lastPass.calls) :
          lastPass.calls[i].op = "register" => ~lastPass.calls[i].live
    /\ Cardinality(Names(registeredKubernetesConnections))
          = Len(registeredKubernetesConnections)
    /\ Cardinality(LiveNames(providerConnections)) = Cardinality(providerConnections)

\* C4 witness: a pass resumed while another was suspended, found the connection of
\* a cluster it lists already registered, and the suspended pass lists it too
C4_Witness ==
    /\ lastPass.ran
    /\ lastPass.others > 0
    /\ lastPass.kept # {}
    /\ \E i \in 1..Len(inflight) :
          Names(Derived(inflight[i])) \cap { old.name : old \in lastPass.kept } # {}

\* C5: passes are applied in trigger order, so once no pass is suspended
\* minikubeClusters and the connections are those of the list of the most
\* recently triggered pass.
C5_LatestTriggeredWins ==
    (inflight = <<>> /\ latestTriggered.any) =>
        LET clusters == Derived(latestTriggered.all)
        IN  /\ minikubeClusters = clusters
            /\ \A name \in Names(clusters) :
                  \E c \in Named(registeredKubernetesConnections, {name}) :
                      /\ c.status = LastNamed(clusters, name).status
                      /\ c.apiURL = ApiURL(LastNamed(clusters, name).apiPort)

\* C6: a pass over a list in which no container carries the label registers no
\* connection and leaves minikubeClusters empty.
C6_NoLabelNoConnection ==
    (lastPass.ran /\ \A k \in 1..Len(lastPass.all) : lastPass.all[k].Labels = Undefined) =>
        /\ \A i \in 1..Len(lastPass.calls) : lastPass.calls[i].op # "register"
        /\ minikubeClusters = <<>>

\* C6 witness: a pass over a non-empty list of unlabelled containers has run
C6_Witness ==
    /\ lastPass.ran
    /\ lastPass.all # <<>>
    /\ \A k \in 1..Len(lastPass.all) : lastPass.all[k].Labels = Undefined

(***************************************************************************)
(* Properties of the CLI lifecycle.                                        *)
(***************************************************************************)
ManagedPaths == {SystemPath, ExtensionPath}

\* the binary record the controller keeps in memory
Record == [cliInfo |-> cliInfo, cliTool |-> cliTool, minikubeCli |-> minikubeCli]

\* the path the controller knew before the last operation
KnownPathBefore ==
    IF controller = "MinikubeCli" THEN last.before.cliInfo.path ELSE last.before.minikubeCli

\* C7: whenever MinikubeCli.doUninstall resolves from an installed state, at the
\* extension path or at the system-wide path, the controller is uninstalled
\* afterwards (isInstalled() is false, getInfo() throws) and the observers of
\* onCliUpdate received exactly one notification, carrying undefined.
C7_UninstalledAndNotified ==
    ( /\ controller = "MinikubeCli"
      /\ last.op = "doUninstall"
      /\ last.ok
      /\ last.before.cliInfo.path \in ManagedPaths )
    => /\ cliInfo = NoInfo
       /\ last.fired = <<NoInfo>>

\* C8: doUninstall with a known path that is neither the system-wide path nor the
\* extension path rejects with the 'not installed by the extension' error, deletes
\* no file and leaves the record unchanged, in MinikubeCli and in the installer of
\* extension.ts alike.
C8_UnmanagedUninstallRejected ==
    ( /\ last.op = "doUninstall"
      /\ KnownPathBefore = ExternalPath )
    => /\ ~last.ok
       /\ last.error = "cannot uninstall minikube not-installed by the extension."
       /\ last.deleted = {}
       /\ Record = last.before

\* C9: when doInstall or doUninstall rejects, the caller gets the error, the record
\* in memory (path and version) is what it was before the operation and nothing was
\* fired on onCliUpdate.
C9_FailureLeavesRecord ==
    ( /\ last.op \in {"doInstall", "doUninstall"}
      /\ ~last.ok )
    => /\ last.error # ""
       /\ Record = last.before
       /\ last.fired = <<>>

\* a download rejected while a binary was known and a release was selected
C9_Witness ==
    /\ last.op = "doInstall"
    /\ ~last.ok
    /\ last.error = "download failed"
    /\ KnownPathBefore # Undefined
    /\ artifact # NoArtifact

\* where doInstall placed the binary
PlacedAt == IF last.promoted THEN SystemPath ELSE ExtensionPath

\* C10: after doInstall resolved, from whatever state, the controller is installed
\* with the version of the release the preceding selectVersion chose, without its
\* leading 'v', and with the path the binary was placed at: the system-wide path
\* when the copy worked, the extension path otherwise; the file is there.
C10_InstalledAsSelected ==
    ( /\ last.op = "doInstall"
      /\ last.ok )
    => /\ lastSelected # NoArtifact
       /\ fs[PlacedAt] = lastSelected
       /\ LET installed == [version |-> <<Digits[lastSelected]>>, path |-> PlacedAt]
          IN  IF controller = "MinikubeCli"
              THEN cliInfo = installed /\ cliTool = installed
              ELSE cliTool = installed /\ minikubeCli = PlacedAt

\* an install over another installed version, placed system-wide
C10_Witness ==
    /\ last.op = "doInstall"
    /\ last.ok
    /\ last.promoted
    /\ KnownPathBefore # Undefined
    /\ last.before.cliTool.version # cliTool.version
    /\ cliTool.path = SystemPath

\* C12: every change of the record of MinikubeCli, by detection, install, update or
\* uninstall, fires onCliUpdate exactly once, with the new record (undefined when it
\* is absent): the record never differs from what it was before the last operation
\* unless that operation fired the new value.
C12_ChangeNotifiedOnce ==
    ( /\ controller = "MinikubeCli"
      /\ last.op # "none"
      /\ cliInfo # last.before.cliInfo )
    => last.fired = <<cliInfo>>

\* C13: detection at startup never fails its caller: when the binary is neither on
\* PATH nor in the extension storage, or when the version query of the binary found
\* fails, init() of MinikubeCli and activate() of extension.ts complete without
\* raising and the controller is uninstalled, no path and no version recorded.
C13_DetectionNeverRaises ==
    ( /\ last.op \in {"detect", "activate"}
      /\ last.error # "" )
    => /\ last.ok
       /\ cliInfo = NoInfo
       /\ minikubeCli = Undefined

\* what `<binary> version --short` of the file at path p answers, normalized
AnswerAt(p) == <<Digits[fs[p]]>>

\* the record [version, path] is absent, or that of a binary that is at its path and
\* answers its version
Sound(record) ==
    /\ record.version = NoVersion <=> record.path = Undefined
    /\ record.path # Undefined =>
          /\ fs[record.path] # NoFile
          /\ record.version = AnswerAt(record.path)

\* C14: in every state of the lifecycle controller a version is recorded exactly when
\* a path is, and the version recorded is the normalized answer of the binary at
\* that path to a version query: the record of MinikubeCli always, the CliTool and
\* path of extension.ts once activate() or doInstall wrote them.
C14_VersionIffPath ==
    /\ controller = "MinikubeCli" => Sound(cliInfo)
    /\ ( /\ controller = "extension.ts"
         /\ last.op \in {"activate", "doInstall"}
         /\ last.ok )
       => Sound(cliTool) /\ cliTool.path = minikubeCli

(***************************************************************************)
(* Properties of MinikubeDownload.                                         *)
(***************************************************************************)
\* C11: install(release) resolves whenever the download does: with the system-wide
\* path when the copy to the system location worked, and with the extension path,
\* the failure of the copy not raised, when it did not; the binary of the release
\* is at the path returned.
C11_InstallFallsBack ==
    ( /\ call.fn = "install"
      /\ call.outcome = "ok" )
    => /\ call.result.ok
       /\ call.result.value = IF call.promoted THEN SystemPath ELSE ExtensionPath
       /\ call.result.fs[call.result.value] = call.release
       /\ ~call.promoted => call.result.fs[SystemPath] = call.files[SystemPath]

\* the download worked, the copy to the system location did not
C11_Witness ==
    /\ call.fn = "install"
    /\ call.outcome = "ok"
    /\ ~call.promoted
    /\ call.result.ok
    /\ call.result.value = ExtensionPath

\* the releases of the list that are no prerelease, by position
Stable == { i \in 1..Len(releases) : ~releases[i].prerelease }

\* the position of the newest release that is no prerelease
Latest == CHOOSE i \in Stable : \A j \in Stable : i <= j

\* C15: checkUpdate registers an update exactly when the CliTool and a binary are
\* known, the version query of the binary works, the registry answers with a latest
\* release, and the tag of that release without its 'v' differs as text from the
\* answer of the binary without its 'v'; the version registered is that tag without
\* its 'v'. An older latest release is registered like a newer one.
C15_UpdateIffTextDiffers ==
    call.fn = "checkUpdate" =>
       /\ call.result.registered <=>
             /\ call.tool
             /\ call.cli # Undefined
             /\ call.versionOk
             /\ call.registryOk
             /\ Stable # {}
             /\ Digits[Latest] # Digits[call.installed]
       /\ call.result.registered => call.result.version = <<Digits[Latest]>>

\* an update registered for a latest release older than the installed one
C15_Witness ==
    /\ call.fn = "checkUpdate"
    /\ call.result.registered
    /\ Latest < call.installed
    /\ call.result.version = <<Digits[Latest]>>

\* s without the white space around it and without the 'v' it then begins with
LeadingStripped(s) ==
    LET t == Trim(s)
    IN  IF t # <<>> /\ Head(t) = "v" THEN Trim(Tail(t)) ELSE t

\* C16: for every version string s the normalization returns s with only a leading
\* 'v' and the white space around it removed ('v1 ' gives '1'); every other
\* character, a later 'v' included, is kept.
C16_OnlyLeadingVStripped ==
    call.fn = "getMinikubeVersion" => call.result = LeadingStripped(call.stdout)

\* C17: when the registry answers with no release that is not a prerelease,
\* getLatestVersionAsset rejects with a NotFound error and resolves with no value.
C17_LatestRejectsWhenEmpty ==
    ( /\ call.fn = "getLatestVersionAsset"
      /\ call.registryOk
      /\ Stable = {} )
    => /\ ~call.result.ok
       /\ call.result.value = "NotFound"

\* the releases that are no prerelease and have fewer than five such before them
FirstFiveStable == { i \in Stable : Cardinality({ j \in Stable : j < i }) < 5 }

ExpectedAsset(operatingSystem, arch) ==
    CASE operatingSystem = "win32" /\ arch = "x64" -> <<"minikube-", "windows", "-", "amd64", ".exe">>
      [] operatingSystem = "win32" /\ arch = "arm64" -> <<"minikube-", "windows", "-", "arm64", ".exe">>
      [] operatingSystem = "linux" /\ arch = "x64" -> <<"minikube-", "linux", "-", "amd64", "">>
      [] operatingSystem = "linux" /\ arch = "arm64" -> <<"minikube-", "linux", "-", "arm64", "">>
      [] operatingSystem = "darwin" /\ arch = "x64" -> <<"minikube-", "darwin", "-", "amd64", "">>
      [] operatingSystem = "darwin" /\ arch = "arm64" -> <<"minikube-", "darwin", "-", "arm64", "">>

C20_SelectVersionOutcomes ==
    ( call.fn = "selectVersion" /\ call.registryOk ) =>
       /\ \A k \in 1..Len(call.offered) :
             /\ call.offered[k].id \in FirstFiveStable
             /\ call.installed # 0 =>
                   call.offered[k].tag # <<"v", Digits[call.installed]>>
       /\ IF Stable = {}
          THEN /\ ~call.result.ok
               /\ call.result.value = "cannot grab minikube releases"
          ELSE IF call.pick = 0
          THEN /\ ~call.result.ok
               /\ call.result.value = "No version selected"
          ELSE /\ call.result.ok
               /\ call.result.value = call.offered[call.pick]

(***************************************************************************)
(* Properties of ImageHandler.moveImage.                                   *)
(***************************************************************************)
\* the positions of the calls of one kind among those moveImage made
EventsOf(op) ==
    { i \in 1..Len(call.result.events) : call.result.events[i].op = op }

\* the positions of the started clusters in the list moveImage was given
StartedAt == { k \in 1..Len(call.clusters) : call.clusters[k].status = "started" }

NamedImage == call.fn = "moveImage" /\ call.image.name \notin {Undefined, ""}

\* the failure of the export or of the load, when one of them failed
Cause == IF call.save # "ok" THEN "saveImage failed" ELSE "exec failed"

C22_FailureReported ==
    ( /\ call.fn = "moveImage"
      /\ EventsOf("saveImage") # {}
      /\ call.save # "ok" \/ ~call.loadOk
      /\ call.rmOk )
    => /\ \E i \in EventsOf("showErrorMessage") :
             call.result.events[i].text[6] = Cause
       /\ EventsOf("showInformationMessage") = {}
       /\ ~call.result.ok
       /\ call.result.error = <<"Unable to push image to minikube cluster: ", Cause>>

\* C23: moveImage rejects with 'Image selection not supported yet' when the image
\* has no name, and with 'No minikube clusters to push to' when no cluster of the
\* list is started; in both cases nothing is exported, no binary is run and no
\* prompt is shown.
C23_RejectedBeforeAnyEffect ==
    call.fn = "moveImage" =>
       /\ ~NamedImage =>
             /\ ~call.result.ok
             /\ call.result.error = <<"Image selection not supported yet">>
             /\ call.result.events = <<>>
             /\ call.result.filename = Undefined
       /\ (NamedImage /\ StartedAt = {}) =>
             /\ ~call.result.ok
             /\ call.result.error = <<"No minikube clusters to push to">>
             /\ call.result.events = <<>>
             /\ call.result.filename = Undefined

C23_Witness ==
    /\ NamedImage
    /\ Len(call.clusters) >= 2
    /\ StartedAt = {}
    /\ ~call.result.ok
    /\ call.result.events = <<>>

\* C24: with exactly one started cluster that cluster is the target and no prompt is
\* shown; with more than one the prompt lists exactly the started clusters and the
\* load targets the one chosen; when the prompt is dismissed moveImage resolves
\* having exported nothing, run nothing, shown no message and named no temporary
\* file.  A cluster that is not started is never the target.
C24_TargetAmongStarted ==
    NamedImage =>
       LET events == call.result.events
           names == { call.clusters[k].name : k \in StartedAt }
       IN  /\ \A i \in EventsOf("exec") :
                 /\ events[i].args[2] \in names
                 /\ events[i].args = <<"-p", events[i].args[2], "image", "load", TmpName>>
           /\ Cardinality(EventsOf("exec")) <= 1
           /\ (call.tmpOk /\ call.save = "ok" /\ (Cardinality(StartedAt) = 1 \/ call.pick > 0))
                 => EventsOf("exec") # {}
           /\ Cardinality(StartedAt) = 1 =>
                 /\ EventsOf("showQuickPick") = {}
                 /\ \A i \in EventsOf("exec") :
                       \A k \in StartedAt : events[i].args[2] = call.clusters[k].name
           /\ Cardinality(StartedAt) > 1 =>
                 /\ EventsOf("showQuickPick") = {1}
                 /\ Len(events[1].items) = Cardinality(StartedAt)
                 /\ { events[1].items[k].label : k \in 1..Len(events[1].items) } = names
                 /\ IF call.pick = 0
                    THEN /\ call.result.ok
                         /\ Len(events) = 1
                         /\ call.result.filename = Undefined
                         /\ ~call.result.exists
                    ELSE \A i \in EventsOf("exec") :
                            events[i].args[2] = events[1].items[call.pick].label

C24_Witness ==
    /\ NamedImage
    /\ Cardinality(StartedAt) = 2
    /\ Len(call.clusters) = 3
    /\ call.pick = 2
    /\ call.result.ok
    /\ \E i \in EventsOf("exec") :
          call.result.events[i].args[2] = call.clusters[3].name

(***************************************************************************)
(* Properties of deleteFile and findMinikube.                              *)
(***************************************************************************)
\* the positions of the elevated commands among the calls deleteFile made
Elevated == { i \in 1..Len(call.calls) : call.calls[i].isAdmin }

\* C25: deleteFile does nothing when the file does not exist; when unlink fails
\* with EACCES or EPERM it runs the elevated removal exactly once (rm, del on
\* Windows) and rejects when that fails; when unlink fails with another error it
\* rejects and runs no elevated command.
C25_ElevatedOnlyOnPermissionError ==
    call.fn = "deleteFile" =>
       IF call.filePath = Undefined \/ call.files[call.filePath] = NoFile
       THEN /\ call.calls = <<>>
            /\ call.result.ok
            /\ call.result.fs = call.files
       ELSE /\ call.calls[1].op = "unlink"
            /\ call.code = "ok" =>
                  /\ Len(call.calls) = 1
                  /\ call.result.ok
                  /\ call.result.fs[call.filePath] = NoFile
            /\ call.code \in {"EACCES", "EPERM"} =>
                  /\ Len(call.calls) = 2
                  /\ Elevated = {2}
                  /\ call.calls[2].op = "exec"
                  /\ call.calls[2].command = IF call.isWindows THEN "del" ELSE "rm"
                  /\ call.calls[2].args = <<call.filePath>>
                  /\ call.result.ok <=> call.adminOk
                  /\ ~call.adminOk => call.result.fs = call.files
            /\ call.code \notin {"ok", "EACCES", "EPERM"} =>
                  /\ Len(call.calls) = 1
                  /\ Elevated = {}
                  /\ ~call.result.ok
                  /\ call.result.fs = call.files

C25_Witness ==
    /\ call.fn = "deleteFile"
    /\ call.filePath = SystemPath
    /\ call.files[SystemPath] # NoFile
    /\ call.code = "EPERM"
    /\ call.isWindows
    /\ ~call.adminOk
    /\ Elevated # {}
    /\ ~call.result.ok

\* C26: findMinikube never rejects; it returns what the PATH lookup found when the
\* lookup succeeds, never the extension path then; when the lookup fails it returns
\* the extension path if and only if a file is there, and undefined otherwise.
C26_PathLookupFirst ==
    call.fn = "findMinikube" =>
       /\ call.result.ok
       /\ call.where # Undefined =>
             /\ call.result.value = call.where
             /\ call.result.value # ExtensionPath
       /\ call.where = Undefined =>
             call.result.value = IF call.files[ExtensionPath] # NoFile
                                 THEN ExtensionPath ELSE Undefined

C26_Witness ==
    /\ call.fn = "findMinikube"
    /\ call.where = ExternalPath
    /\ call.files[ExtensionPath] # NoFile
    /\ call.result.value = ExternalPath

(***************************************************************************)
(* Properties of the clusters a pass derives.                              *)
(***************************************************************************)
\* the labelled containers of the list the last pass processed
LabelledContainers ==
    SelectSeq(lastPass.all, LAMBDA container : container.Labels # Undefined)

\* the bindings of a container with the private port of the API and type tcp
ApiBindings(container) ==
    { i \in 1..Len(container.Ports) :
        /\ container.Ports[i].PrivatePort = 8443
        /\ container.Ports[i].Type = "tcp" }

\* C28: after a pass, for every labelled container of its list, the status of the
\* derived cluster, and the status the connection of that name answers with, is
\* 'started' if and only if the state of the container is 'running', and 'stopped'
\* otherwise.
C28_StatusFollowsState ==
    lastPass.ran =>
       /\ Len(minikubeClusters) = Len(LabelledContainers)
       /\ \A k \in 1..Len(LabelledContainers) :
             LET container == LabelledContainers[k]
                 status == IF container.State = "running" THEN "started" ELSE "stopped"
             IN  /\ minikubeClusters[k].status = status
                 /\ \A item \in Named(registeredKubernetesConnections, {container.Labels}) :
                       item.status = status

\* C29: after a pass, for every labelled container of its list, the apiPort of the
\* derived cluster is the public port of its first binding with private port 8443
\* and type tcp, 0 when it has none, and the apiURL of the connection of that name
\* is 'https://localhost:' followed by that port.
C29_ApiPortFromTcp8443 ==
    lastPass.ran =>
       /\ Len(minikubeClusters) = Len(LabelledContainers)
       /\ \A k \in 1..Len(LabelledContainers) :
             LET container == LabelledContainers[k]
                 apiPort == IF ApiBindings(container) = {} THEN 0
                            ELSE container.Ports[CHOOSE i \in ApiBindings(container) :
                                    \A j \in ApiBindings(container) : i <= j].PublicPort
             IN  /\ minikubeClusters[k].apiPort = apiPort
                 /\ \A item \in Named(registeredKubernetesConnections, {container.Labels}) :
                       item.apiURL = <<"https://localhost:", apiPort>>

\* C30: after every pass minikubeClusters is exactly the list derived from the
\* container list of that pass, and no two of its entries have the same name.
C30_ClustersRecomputedAndUnique ==
    lastPass.ran =>
       /\ minikubeClusters = Derived(lastPass.all)
       /\ \A j, k \in 1..Len(minikubeClusters) :
             j # k => minikubeClusters[j].name # minikubeClusters[k].name

(***************************************************************************)
(* Properties of the lifecycle of a registered connection.                 *)
(***************************************************************************)
\* C27: each lifecycle operation of a registered connection runs the binary
\* exactly once, with the arguments start --profile <name>, stop --profile <name>
\* --keep-context-active or delete --profile <name>; it rejects if and only if that
\* run rejects, with the same error.
C27_OneInvocationPerOperation ==
    call.fn = "lifecycle" =>
       /\ Len(call.result.calls) = 1
       /\ call.result.calls[1].command = minikubeCli
       /\ call.operation = "start" =>
             call.result.calls[1].args = <<"start", "--profile", call.name>>
       /\ call.operation = "stop" =>
             call.result.calls[1].args
                = <<"stop", "--profile", call.name, "--keep-context-active">>
       /\ call.operation = "delete" =>
             call.result.calls[1].args = <<"delete", "--profile", call.name>>
       /\ call.result.ok <=> call.execOk
       /\ ~call.execOk => call.result.error = "exec failed"

C27_Witness ==
    /\ call.fn = "lifecycle"
    /\ call.operation = "start"
    /\ ~call.execOk
    /\ ~call.result.ok
    /\ \E k \in 1..Len(registeredKubernetesConnections) :
          /\ registeredKubernetesConnections[k].name = call.name
          /\ registeredKubernetesConnections[k].status = "stopped"

(***************************************************************************)
(* Properties of createCluster.                                            *)
(***************************************************************************)
\* a parameter of the creation form that was filled in
Given(value) == value \notin {Undefined, ""}

\* C31: createCluster runs the binary exactly once, with start --profile <name>
\* --driver <driver> --container-runtime <runtime>, then --base-image <img> only
\* when a base image is given, then --mount --mount-string <spec> only when a mount
\* string is given; an absent name reads 'minikube', an absent driver or runtime
\* 'docker'.
C31_StartArguments ==
    call.fn = "createCluster" =>
       LET args == call.result.exec[1].args
           withImage == IF Given(call.params.baseImage) THEN 2 ELSE 0
           withMount == IF Given(call.params.mountString) THEN 3 ELSE 0
       IN  /\ Len(call.result.exec) = 1
           /\ call.result.exec[1].command = minikubeCli
           /\ Len(args) = 7 + withImage + withMount
           /\ SubSeq(args, 1, 7)
                = <<"start", "--profile",
                    IF call.params.name = Undefined THEN "minikube" ELSE call.params.name,
                    "--driver",
                    IF call.params.driver = Undefined THEN "docker" ELSE call.params.driver,
                    "--container-runtime",
                    IF call.params.runtime = Undefined THEN "docker"
                    ELSE call.params.runtime>>
           /\ withImage = 2 =>
                 SubSeq(args, 8, 9) = <<"--base-image", call.params.baseImage>>
           /\ withMount = 3 =>
                 SubSeq(args, 8 + withImage, 10 + withImage)
                    = <<"--mount", "--mount-string", call.params.mountString>>

C31_Witness ==
    /\ call.fn = "createCluster"
    /\ call.params.name = Undefined
    /\ call.params.driver = "podman"
    /\ Given(call.params.baseImage)
    /\ Given(call.params.mountString)
    /\ Len(call.result.exec[1].args) = 12

\* C32: createCluster either resolves, having logged the usage 'createCluster'
\* once and no error, or rejects with 'Failed to create minikube cluster. ' and
\* the message of the failure, having logged the error 'createCluster' once with
\* that message and no usage; the first if and only if the run succeeded.
C32_UsageOrError ==
    call.fn = "createCluster" =>
       IF call.outcome = "ok"
       THEN /\ call.result.ok
            /\ Len(call.result.usage) = 1
            /\ call.result.usage[1].event = "createCluster"
            /\ call.result.errors = <<>>
       ELSE /\ ~call.result.ok
            /\ call.result.usage = <<>>
            /\ Len(call.result.errors) = 1
            /\ call.result.errors[1].event = "createCluster"
            /\ call.result.errors[1].error
                  = (IF call.outcome = "Error" THEN "exit code 1" ELSE "spawn failed")
            /\ call.result.error
                  = <<"Failed to create minikube cluster. ", call.result.errors[1].error>>

C32_Witness ==
    /\ call.fn = "createCluster"
    /\ call.outcome = "Error"
    /\ ~call.result.ok
    /\ Len(call.result.errors) = 1
    /\ call.result.usage = <<>>

(***************************************************************************)
(* Properties of runCliCommand.                                            *)
(***************************************************************************)
\* C33: when the token is cancelled while the child runs, the child is killed and
\* the promise rejects with 'Execution cancelled'; once the promise is settled,
\* neither the exit of the child nor a later cancellation changes its outcome.
C33_CancellationWins ==
    [][ (Running /\ call'.fn = "runCliCommand") =>
           /\ (~call.cancelled /\ call'.cancelled /\ call.child = "running") =>
                 /\ Len(call'.kills) = Len(call.kills) + 1
                 /\ call'.promise.state = "rejected"
                 /\ call'.promise.message = <<"Execution cancelled">>
           /\ call.promise.state # "pending" => call'.promise = call.promise ]_vars

C33_Witness ==
    /\ Running
    /\ call.events = <<"cancel", "close">>
    /\ call.exitCode = 0
    /\ call.kills = <<"kill">>
    /\ call.promise.state = "rejected"
    /\ call.promise.message = <<"Execution cancelled">>

(***************************************************************************)
(* Properties of doUpdate.                                                 *)
(***************************************************************************)
\* C38: doUpdate of a registered update, when the install succeeds, records the
\* latest version with the path the binary was installed at and disposes the
\* registration of the update; when the install fails it rejects with the error
\* of the install, leaves the recorded version and path alone and does not dispose
\* the registration.
C38_UpdateRecordedOrPropagated ==
    call.fn = "doUpdate" =>
       LET recorded ==
               /\ call.result.ok
               /\ call.result.cliTool.version = <<Digits[call.latest]>>
               /\ call.result.cliTool.path
                     = (IF call.promoted THEN SystemPath ELSE ExtensionPath)
               /\ call.result.fs[call.result.cliTool.path] = call.latest
               /\ call.result.disposed
           propagated ==
               /\ ~call.result.ok
               /\ call.result.error # ""
               /\ call.result.cliTool = call.tool
               /\ ~call.result.disposed
       IN  IF call.outcome = "ok" THEN recorded \/ propagated ELSE propagated

(***************************************************************************)
(* Properties of the installer callbacks.                                  *)
(***************************************************************************)
\* no release is selected: none was ever, or an uninstall has just completed
NothingSelected ==
    \/ lastSelected = NoArtifact
    \/ last.op = "doUninstall" /\ last.ok
    \/ last.op = "onDidUninstall"

\* no binary is recorded
NothingInstalled ==
    IF controller = "MinikubeCli" THEN cliInfo = NoInfo ELSE minikubeCli = Undefined

\* C39: doInstall (and doUpdate) called while no release is selected, before any
\* selectVersion succeeded or after an uninstall completed with no selectVersion
\* since, rejects, downloads nothing and changes nothing; doUninstall called while
\* no binary is recorded rejects and deletes nothing.
C39_RefusedWithoutSelection ==
    [][ /\ (NothingSelected /\ last'.op = "doInstall") =>
              /\ ~last'.ok
              /\ fs' = fs
              /\ cliInfo' = cliInfo
              /\ cliTool' = cliTool
              /\ minikubeCli' = minikubeCli
        /\ (NothingInstalled /\ last'.op = "doUninstall") =>
              /\ ~last'.ok
              /\ fs' = fs ]_vars

(***************************************************************************)
(* Properties of the provider.                                             *)
(***************************************************************************)
\* the providers created and not disposed
AliveProviders == { p \in 1..Len(providers) : providers[p] = "alive" }

\* the provider p was created after an uninstall disposed of an earlier one
Reinstalled(p) == \E q \in 1..Len(providers) : q < p /\ providers[q] = "disposed"

\* the first pass of the provider p is the most recent pass
FirstPassOf(p) ==
    /\ passOn.provider = p
    /\ passOn.trigger = "createProvider"
    /\ \E i \in 1..Len(creating) : creating[i].id = p /\ creating[i].stage = "boot"

\* the connections registered with the provider p
RegisteredWith(p) ==
    { registeredKubernetesConnections[k].name :
        k \in { j \in 1..Len(registeredKubernetesConnections) :
                  [id |-> registeredKubernetesConnections[j].id, provider |-> p] \in owner } }

\* C34: at most one provider is alive at any time, whatever the order of the
\* version-update events and of the steps of createProvider: createProvider is
\* called at most once between an activation or uninstall and the next uninstall.
C34_AtMostOneProvider == Cardinality(AliveProviders) <= 1

\* C35: after an uninstall and a new install, the first pass of the new provider
\* has registered with the new provider a connection for every labelled container
\* it listed, the clusters that had a connection before the uninstall included.
C35_ReinstallRegistersAll ==
    \A p \in 1..Len(providers) :
        (Reinstalled(p) /\ FirstPassOf(p)) =>
            \A k \in 1..Len(LabelledContainers) :
                LabelledContainers[k].Labels \in RegisteredWith(p)

\* C36: no container or connection event makes a pass run against a provider
\* that an uninstall has disposed of.
C36_NoPassOnDisposedProvider == passOn.trigger = "event" => passOn.alive

\* C37: a lifecycle operation of a connection never hands an absent binary path
\* to process.exec.
C37_ExecHasBinary ==
    call.fn = "lifecycle" => call.result.calls[1].command # Undefined

====
